---- MODULE Spec2Model ----
(***************************************************************************)
(* Pollution analytics of the WebGIS chat endpoint (POST /api/ai/chat):    *)
(* buildAdvancedDataContext and the analyzers it calls (Spec), the request *)
(* handler around them (ServerSpec) and the chat client that calls the     *)
(* endpoint (ClientSpec).                                                  *)
(*                                                                         *)
(* Numbers.  The code computes with IEEE doubles; the model computes with  *)
(* exact rationals [n, d] (d > 0, lowest terms) and, for a square root,    *)
(* with the rational under the root.  Pollutant values are integers, so    *)
(* sums are exact in both; rounding error of the floating-point divisions  *)
(* is outside the model, except where a z-score is compared with a bound   *)
(* that it equals exactly: roundsUp says whether the double then lies      *)
(* above the bound.  Spec keeps roundsUp FALSE (exact arithmetic);         *)
(* DoubleSpec leaves it free.                                              *)
(*                                                                         *)
(* Station ids are non-numeric strings ("S1"), so that the property order  *)
(* of the grouping objects (Object.entries) is insertion order.  Every     *)
(* sample_dt is a valid ISO timestamp, modelled as hours since an epoch;   *)
(* its date part (split('T')[0]) is the day number.                        *)
(***************************************************************************)
EXTENDS Integers, Sequences, FiniteSets, TLC

VARIABLES given, stationData, context, previous, calls, run, roundsUp,
          build, framework, reqBody, pc, responses, llmCalls, analyses,
          clientData, phase, fetches, backend, promise, executed, messages,
          input, isTyping, sent,
          filters, focusedStationId, highlightedStationIds,
          lastCommand, commandHistory, forwarded, issued, steps

analysisVars == <<given, stationData, context, previous, calls, run, roundsUp>>

serverVars == <<build, framework, reqBody, pc, responses, llmCalls, analyses>>

clientVars == <<clientData, phase, fetches, backend, promise, executed, messages,
                input, isTyping, sent>>

mapVars == <<filters, focusedStationId, highlightedStationIds,
             lastCommand, commandHistory, forwarded, issued, steps>>

vars == <<analysisVars, serverVars, clientVars, mapVars>>

----------------------------------------------------------------------------
(* Bounds of the model *)

\* longest free sequence of catalogue readings
MaxLen == 3
\* most quiet readings in front of the outliers of one block
MaxPad == 10
\* most repetitions of a block
MaxRep == 6
\* most calls of buildAdvancedDataContext on one array
MaxCalls == 2
\* most zero readings that share a day with a reading of 1
MaxDilute == 9
\* most rows of an array built to reach a given exceedance rate
MaxRows == 20
\* most rows of an array built around the forecaster's threshold of 10 rows
MaxForecast == 40
\* most rows of an array built around the forecaster's cap of 100 rows
MaxBulk == 337
\* most rows of an array built to reach a given share of exceeding rows in
\* the forecaster's window
\* readings of the largest upload
MaxVolume == 2001

MaxExceed == 50
\* most items of the stationData array of a request body
MaxItems == 2
\* most rows the chat client holds
MaxClientRows == 3

----------------------------------------------------------------------------
(* Exact arithmetic *)

Abs(x) == IF x < 0 THEN -x ELSE x

RECURSIVE GCD(_, _)
GCD(a, b) == IF b = 0 THEN a ELSE GCD(b, a % b)

\* the rational n/d in lowest terms, d > 0
Rat(n, d) == LET g == GCD(Abs(n), d) IN [n |-> n \div g, d |-> d \div g]

FromInt(i) == [n |-> i, d |-> 1]

Zero == FromInt(0)

RAdd(x, y) ==
  LET g == GCD(x.d, y.d)
  IN  Rat(x.n * (y.d \div g) + y.n * (x.d \div g), (x.d \div g) * y.d)

RNeg(x) == [n |-> -x.n, d |-> x.d]

RSub(x, y) == RAdd(x, RNeg(y))

RMul(x, y) ==
  LET g1 == GCD(Abs(x.n), y.d)
      g2 == GCD(Abs(y.n), x.d)
  IN  [n |-> (x.n \div g1) * (y.n \div g2), d |-> (x.d \div g2) * (y.d \div g1)]

\* defined for y # 0
RDiv(x, y) ==
  RMul(x, IF y.n > 0 THEN [n |-> y.d, d |-> y.n] ELSE [n |-> -y.d, d |-> -y.n])

\* a / b < c / d for a, c >= 0 and b, d > 0, by whole parts and then by the
\* reciprocals of the remainders, so that no product is formed
RECURSIVE FracLess(_, _, _, _)
FracLess(a, b, c, d) ==
  IF a \div b # c \div d THEN a \div b < c \div d
  ELSE IF c % d = 0 THEN FALSE
  ELSE IF a % b = 0 THEN TRUE
  ELSE FracLess(d, c % d, b, a % b)

RLess(x, y) ==
  IF x.n < 0
  THEN IF y.n < 0 THEN FracLess(-y.n, y.d, -x.n, x.d) ELSE TRUE
  ELSE IF y.n < 0 THEN FALSE ELSE FracLess(x.n, x.d, y.n, y.d)

RAbs(x) == [n |-> Abs(x.n), d |-> x.d]

RMax(x, y) == IF RLess(x, y) THEN y ELSE x

\* Number.prototype.toFixed(digits) of a rational whose scale is 10^digits:
\* the integer k with k / scale nearest to x, the larger one of two (in
\* magnitude, the sign is set apart), i.e. the text of x in units of 1/scale.
ToFixed(x, scale) ==
  LET k == (2 * Abs(x.n) * scale + x.d) \div (2 * x.d)
  IN  IF x.n < 0 THEN -k ELSE k

RECURSIVE SumIn(_, _, _)
\* f[lo] + ... + f[hi] for a sequence f of integers (exact sums do not
\* depend on the order of the additions, so the range is halved)
SumIn(f, lo, hi) ==
  IF lo > hi THEN 0
  ELSE IF lo = hi THEN f[lo]
  ELSE SumIn(f, lo, (lo + hi) \div 2) + SumIn(f, (lo + hi) \div 2 + 1, hi)

Sum(f) == SumIn(f, 1, Len(f))

RECURSIVE RSumIn(_, _, _)
RSumIn(f, lo, hi) ==
  IF lo > hi THEN Zero
  ELSE IF lo = hi THEN f[lo]
  ELSE RAdd(RSumIn(f, lo, (lo + hi) \div 2), RSumIn(f, (lo + hi) \div 2 + 1, hi))

\* values.reduce((sum, val) => sum + val, 0) over rationals
RSum(f) == RSumIn(f, 1, Len(f))

Range(f) == {f[i] : i \in 1..Len(f)}

RECURSIVE IndicesByKey(_, _)
\* the indices whose key is in the set among, by ascending key and, for equal
\* keys, in ascending order of index
IndicesByKey(keys, among) ==
  IF among = {} THEN <<>>
  ELSE LET least == CHOOSE m \in among : \A x \in among : m <= x
       IN  SelectSeq([i \in 1..Len(keys) |-> i], LAMBDA i : keys[i] = least)
           \o IndicesByKey(keys, among \ {least})

\* The indices of keys in stable ascending order of key: what
\* Array.prototype.sort does with a comparator (a, b) => key(a) - key(b).
SortedIndices(keys) == IndicesByKey(keys, Range(keys))

----------------------------------------------------------------------------
(* Readings: the rows of req.body.stationData *)

\* lat and lon are in hundredths of a degree
Reading(id, name, lat, lon, dt, a, b) ==
  [station_id |-> id, station_name |-> name, lat |-> lat, lon |-> lon,
   sample_dt |-> dt, pol_a |-> a, pol_b |-> b]

\* an ISO timestamp: day and hour of the day, as hours since the epoch
At(day, hour) == 24 * day + hour

\* Rows of two stations some 10 km apart over three days.  Station S1 was
\* renamed and re-surveyed on day 2, so its rows do not all carry the same
\* name and position.
Catalogue ==
  { Reading("S1", "Alpha",   -2355, -4663, At(0, 0),  7, 3),
    Reading("S1", "Alpha",   -2355, -4663, At(0, 12), 0, 0),
    Reading("S1", "Alpha",   -2355, -4663, At(1, 0),  8, 0),
    Reading("S1", "Alpha-2", -2356, -4663, At(2, 0),  6, 0),
    Reading("S2", "Beta",    -2346, -4663, At(0, 12), 3, 3),
    Reading("S2", "Beta",    -2346, -4663, At(1, 12), 0, 16),
    Reading("S2", "Beta",    -2346, -4663, At(2, 12), 11, 4),
    Reading("S2", "Beta",    -2346, -4663, At(2, 0),  1, 2) }

\* every sequence of at most MaxLen catalogue rows, the empty one included
SmallInputs == UNION {[1..k -> Catalogue] : k \in 0..MaxLen}

\* a row of station S1 with both pollutants at 0
Quiet == Reading("S1", "Alpha", -2355, -4663, At(0, 0), 0, 0)

\* a row of station S2 on the given day
Outlier(day, pol) == Reading("S2", "Beta", -2346, -4663, At(day, 12), pol[1], pol[2])

OutlierPols == {<<1, 1>>, <<8, 9>>, <<3, 0>>}

\* no, one or two outlier rows: the first on day 1, the second at the same
\* time or a day later
OutlierTails ==
  {<<>>} \cup {<<Outlier(1, p)>> : p \in OutlierPols}
         \cup {<<Outlier(1, p), Outlier(day, q)>> : p, q \in OutlierPols, day \in {1, 2}}

Block(k, tail) == [i \in 1..k |-> Quiet] \o tail

Repeat(block, m) ==
  [i \in 1..(m * Len(block)) |-> block[((i - 1) % Len(block)) + 1]]

\* m monitoring rounds, each of k quiet rows followed by the outlier rows
LargeInputs ==
  {Repeat(Block(k, t), m) : k \in 0..MaxPad, t \in OutlierTails, m \in 1..MaxRep}

\* a row of station S1 at 06:00 of the given day
TrendRow(day, a, b) == Reading("S1", "Alpha", -2355, -4663, At(day, 6), a, b)

\* the rows of one day: a single zero reading, or j zero readings and a
\* reading of 1 in one pollutant
TrendDay(day, special, j, flip) ==
  IF day = special
  THEN [i \in 1..j |-> TrendRow(day, 0, 0)]
         \o <<IF flip THEN TrendRow(day, 0, 1) ELSE TrendRow(day, 1, 0)>>
  ELSE <<TrendRow(day, 0, 0)>>

\* four days, not in chronological order, one of which has a daily mean of
\* 1 / (j + 1) in one pollutant: slopes of -3, 1 and 3 tenths of that mean
TrendInputs ==
  {TrendDay(2, special, j, flip) \o TrendDay(0, special, j, flip)
     \o TrendDay(3, special, j, flip) \o TrendDay(1, special, j, flip) :
       special \in {0, 2, 3}, j \in 0..MaxDilute, flip \in BOOLEAN}

\* Four stations on the meridian of S1: N1 at the place of S1, N2 some 22 km,
\* N3 some 44 km and N4 some 78 km to the north of it.
GeoStations ==
  <<[id |-> "N1", name |-> "North 1", lat |-> -2355],
    [id |-> "N2", name |-> "North 2", lat |-> -2335],
    [id |-> "N3", name |-> "North 3", lat |-> -2315],
    [id |-> "N4", name |-> "North 4", lat |-> -2285]>>

\* one reading of a station, none for a level of -1
GeoRow(i, level) ==
  IF level = -1 THEN <<>>
  ELSE <<Reading(GeoStations[i].id, GeoStations[i].name, GeoStations[i].lat, -4663,
                 At(0, 0), level, 1)>>

\* what each station reads: nothing, or a low, medium or high value; N4 may
\* also read 15 or 16
GeoLevels ==
  {f \in [1..4 -> {-1, 1, 5, 9, 15, 16}] : \A i \in 1..3 : f[i] \in {-1, 1, 5, 9}}

\* at most one reading per station, alone or behind MaxRows - 4 quiet rows of S1
GeoInputs ==
  {[i \in 1..pad |-> Quiet] \o GeoRow(3, f[3]) \o GeoRow(1, f[1]) \o GeoRow(4, f[4])
     \o GeoRow(2, f[2]) : pad \in {0, MaxRows - 4}, f \in GeoLevels}

\* the i-th of the rows above the limit of 7: in pollutant A, in B, in both
HighRow(i) ==
  IF i % 3 = 1 THEN Reading("S1", "Alpha", -2355, -4663, At(0, 0), 8, 0)
  ELSE IF i % 3 = 2 THEN Reading("S1", "Alpha", -2355, -4663, At(0, 0), 0, 8)
  ELSE Reading("S1", "Alpha", -2355, -4663, At(0, 0), 8, 8)

\* the i-th of the rows not above the limit: at it, or at 0
CalmRow(i) ==
  IF i % 2 = 1 THEN Reading("S1", "Alpha", -2355, -4663, At(0, 0), 7, 7) ELSE Quiet

\* n rows of which c are above the limit of 7
RiskInputs ==
  UNION {{[i \in 1..n |-> IF i <= c THEN HighRow(i) ELSE CalmRow(i)] : c \in 0..n}
           : n \in 1..MaxRows}

\* a row of station S1 at 00:00 of the given day
ForecastRow(day, a, b) == Reading("S1", "Alpha", -2355, -4663, At(day, 0), a, b)

\* 26 rows of day 0 with pol_a = 1, then rows of day 1 whose pol_a is lo
\* and hi in turn; pol_b is 1 throughout
ForecastRows(n, lo, hi) ==
  [i \in 1..n |-> IF i <= 26 THEN ForecastRow(0, 1, 1)
                  ELSE IF i % 2 = 1 THEN ForecastRow(1, lo, 1)
                  ELSE ForecastRow(1, hi, 1)]

ForecastInputs ==
  {ForecastRows(n, p[1], p[2]) :
     n \in (MaxForecast - 4)..MaxForecast, p \in {<<0, 0>>, <<1, 1>>, <<2, 2>>, <<0, 2>>}}

\* 40 rows of day 2, then rows of day 0, then 80 rows of day 1, all quiet
BulkRows(n) ==
  [i \in 1..n |-> IF i <= 40 THEN ForecastRow(2, 0, 0)
                  ELSE IF i > n - 80 THEN ForecastRow(1, 0, 0)
                  ELSE ForecastRow(0, 0, 0)]

BulkInputs == {BulkRows(n) : n \in (MaxBulk - 4)..MaxBulk}

\* c rows of day 1 with one pollutant at 8, then quiet rows of day 0, then 5
\* rows of day 0 with both pollutants at 9, which the window does not reach
ExceedRows(n, c) ==
  [i \in 1..n |-> IF i <= c THEN (IF i % 2 = 1 THEN ForecastRow(1, 8, 0)
                                                ELSE ForecastRow(1, 0, 8))
                  ELSE IF i > n - 5 THEN ForecastRow(0, 9, 9)
                  ELSE ForecastRow(0, 0, 0)]

ExceedInputs == {ExceedRows(MaxExceed, c) : c \in 0..15}

Inputs ==
  SmallInputs \cup LargeInputs \cup TrendInputs \cup GeoInputs \cup RiskInputs
    \cup ForecastInputs \cup BulkInputs \cup ExceedInputs

----------------------------------------------------------------------------
(* Statistics primitives *)

PolA(data) == [i \in 1..Len(data) |-> data[i].pol_a]

PolB(data) == [i \in 1..Len(data) |-> data[i].pol_b]

\* values.reduce((sum, val) => sum + val, 0) / values.length
Mean(values) == Rat(Sum(values), Len(values))

\* the sample variance: the divisor is n - 1 (0 for a single value)
calculateSampleVariance(values) ==
  LET avg == Mean(values)
      sq  == [i \in 1..Len(values) |->
                LET dev == RSub(FromInt(values[i]), avg) IN RMul(dev, dev)]
  IN  IF Len(values) = 1 THEN Zero ELSE RDiv(RSum(sq), FromInt(Len(values) - 1))

\* values.reduce((sum, val) => sum + Math.pow(val - avg, 2), 0) / values.length
calculateVariance(values) ==
  LET avg == Mean(values)
      sq  == [i \in 1..Len(values) |->
                LET dev == RSub(FromInt(values[i]), avg) IN RMul(dev, dev)]
  IN  RDiv(RSum(sq), FromInt(Len(values)))

\* Math.sqrt(variance), with the variance computed by the same expression:
\* the non-negative root of the rational sq
calculateStandardDeviation(values) ==
  LET avg == Mean(values)
      sq  == [i \in 1..Len(values) |->
                LET dev == RSub(FromInt(values[i]), avg) IN RMul(dev, dev)]
  IN  [sq |-> RDiv(RSum(sq), FromInt(Len(values)))]

\* Math.max(...values) of a non-empty sequence
MaxOf(values) == CHOOSE m \in Range(values) : \A x \in Range(values) : x <= m

\* Math.min(...values) of a non-empty sequence
MinOf(values) == CHOOSE m \in Range(values) : \A x \in Range(values) : m <= x

\* one entry of pollutionStats
PollutantStats(values) ==
  [avg        |-> Mean(values),
   max        |-> MaxOf(values),
   min        |-> MinOf(values),
   high_count |-> Len(SelectSeq(values, LAMBDA val : val > 7)),
   stdDev     |-> calculateStandardDeviation(values)]

pollutionStatsOf(data) ==
  [polA |-> PollutantStats(PolA(data)), polB |-> PollutantStats(PolB(data))]

----------------------------------------------------------------------------
(* Station-level analysis *)

\* the distinct keys of a sequence in the order of their first occurrence:
\* the property order of an object filled by a reduce over the rows
\* one key per run of equal neighbours: a key that comes back later is
\* listed again
KeysOfRuns(keys) ==
  LET first == SelectSeq([i \in 1..Len(keys) |-> i],
                         LAMBDA i : IF i = 1 THEN TRUE ELSE keys[i - 1] # keys[i])
  IN  [k \in 1..Len(first) |-> keys[first[k]]]

KeysInOrder(keys) ==
  LET first == SelectSeq([i \in 1..Len(keys) |-> i],
                         LAMBDA i : \A j \in 1..(i - 1) : keys[j] # keys[i])
  IN  [k \in 1..Len(first) |-> keys[first[k]]]

\* the thresholds read as inclusive: >= 7 and >= 3
riskLevelInclusive(maxPol) ==
  IF ~RLess(maxPol, FromInt(7)) THEN "high"
  ELSE IF ~RLess(maxPol, FromInt(3)) THEN "medium" ELSE "low"

\* avgPolA > 7 || avgPolB > 7 ? 'high' : avgPolA > 3 || avgPolB > 3 ? 'medium' : 'low',
\* on the larger of the two averages
riskLevelOf(maxPol) ==
  IF RLess(FromInt(7), maxPol) THEN "high"
  ELSE IF RLess(FromInt(3), maxPol) THEN "medium" ELSE "low"

StationEntry(stationId, records) ==
  LET avgPolA == Mean(PolA(records))
      avgPolB == Mean(PolB(records))
      maxPol  == RMax(avgPolA, avgPolB)
  IN  [id          |-> stationId,
       name        |-> records[1].station_name,
       location    |-> [lat |-> records[1].lat, lon |-> records[1].lon],
       avgPolA     |-> avgPolA,
       avgPolB     |-> avgPolB,
       recordCount |-> Len(records),
       riskLevel   |-> riskLevelOf(maxPol),
       variance    |-> calculateVariance(PolA(records) \o PolB(records))]

stationSummaryOf(data) ==
  LET ids == KeysInOrder([i \in 1..Len(data) |-> data[i].station_id])
  IN  [k \in 1..Len(ids) |->
         StationEntry(ids[k], SelectSeq(data, LAMBDA r : r.station_id = ids[k]))]

----------------------------------------------------------------------------
(* 1. Anomaly detection *)

\* the date part of an ISO timestamp: sample_dt.split('T')[0]
DatePart(dt) == dt \div 24

RECURSIVE ISqrtIn(_, _, _)
\* the largest s in lo..hi with s * s <= x  (lo * lo <= x < (hi + 1)^2)
ISqrtIn(x, lo, hi) ==
  IF lo = hi THEN lo
  ELSE LET mid == (lo + hi + 1) \div 2
       IN  IF mid * mid <= x THEN ISqrtIn(x, mid, hi) ELSE ISqrtIn(x, lo, mid - 1)

\* floor(m * x) for a rational x >= 0 and an integer m > 0
FloorTimes(x, m) == m * (x.n \div x.d) + (m * (x.n % x.d)) \div x.d

\* floor(m * m * x)
FloorTimesSq(x, m) ==
  LET whole == x.n \div x.d
      t     == m * (x.n % x.d)
  IN  m * m * whole + m * (t \div x.d) + (m * (t % x.d)) \div x.d

\* A z-score as the code computes it, Math.abs((value - avg) / stdDev):
\* NaN for 0/0, Infinity for x/0, and otherwise the non-negative root of sq.
\* a division in which every x / 0 is Infinity, 0 / 0 included
zScoreInfiniteAtZero(value, stat) ==
  IF stat.stdDev.sq.n = 0
  THEN [kind |-> "Infinity", sq |-> Zero]
  ELSE [kind |-> "finite",
        sq |-> RDiv(RMul(RSub(FromInt(value), stat.avg), RSub(FromInt(value), stat.avg)),
                    stat.stdDev.sq)]

zScoreOf(value, stat) ==
  LET diff == RSub(FromInt(value), stat.avg)
  IN  IF stat.stdDev.sq.n = 0
      THEN [kind |-> IF diff.n = 0 THEN "NaN" ELSE "Infinity", sq |-> Zero]
      ELSE [kind |-> "finite", sq |-> RDiv(RMul(diff, diff), stat.stdDev.sq)]

\* z > bound, for a rational bound >= 0; every comparison with NaN is false.
\* Math.sqrt and the division of line 178 round: a z-score that is exactly
\* the bound may come out one ulp above it (nine readings of 0 and one of 7
\* give 3.0000000000000004), which is the case when roundsUp.
ZExceeds(z, bound) ==
  \/ z.kind = "Infinity"
  \/ z.kind = "finite" /\ RLess(RMul(bound, bound), z.sq)
  \/ z.kind = "finite" /\ z.sq = RMul(bound, bound) /\ roundsUp

\* z.toFixed(digits), scale = 10^digits: the text of z in units of 1/scale
\* (kind tells the texts "NaN" and "Infinity" apart from the digits)
ZToFixed(z, scale) ==
  [kind  |-> z.kind,
   units |-> IF z.kind = "finite"
             THEN (ISqrtIn(FloorTimesSq(z.sq, 2 * scale), 0, 2 * scale * 16) + 1) \div 2
             ELSE 0]

\* const zScoreThreshold = 2.5
zScoreThreshold == Rat(5, 2)

\* z >= bound
ZAtLeast(z, bound) ==
  \/ z.kind = "Infinity"
  \/ z.kind = "finite" /\ ~RLess(z.sq, RMul(bound, bound))

\* the threshold read as inclusive: zScore >= 2.5
IsAnomalousInclusive(z) == ZAtLeast(z, zScoreThreshold)

\* zScoreA > zScoreThreshold
IsAnomalous(z) == ZExceeds(z, zScoreThreshold)

\* the severity bound read as inclusive: zScore >= 3
severityInclusive(z) == IF ZAtLeast(z, FromInt(3)) THEN "extreme" ELSE "moderate"

\* zScoreA > 3 ? 'extreme' : 'moderate'
severityOf(z) == IF ZExceeds(z, FromInt(3)) THEN "extreme" ELSE "moderate"

AnomalyEntry(record, pollutant, value, z) ==
  [stationId   |-> record.station_id,
   stationName |-> record.station_name,
   date        |-> DatePart(record.sample_dt),
   pollutant   |-> pollutant,
   value       |-> value,
   zScore      |-> ZToFixed(z, 100),
   severity    |-> severityOf(z),
   description |-> ZToFixed(z, 10)]

\* the sort key of (a, b) => b.zScore - a.zScore on the zScore texts
DescendingZKey(entry) ==
  IF entry.zScore.kind = "finite" THEN -entry.zScore.units ELSE -100000

\* anomalies.sort((a, b) => b.zScore - a.zScore).slice(0, 10)
TopAnomalies(anomalies) ==
  LET order == SortedIndices([i \in 1..Len(anomalies) |-> DescendingZKey(anomalies[i])])
      keep  == IF Len(anomalies) < 10 THEN Len(anomalies) ELSE 10
  IN  [k \in 1..keep |-> anomalies[order[k]]]

\* One run of detectAnomalies: the z-scores it computes (zScoreA and zScoreB
\* of every record), the entries it pushes, and the list it returns.
DetectAnomaliesRun(data, pollutionStats) ==
  LET n  == Len(data)
      zs == [i \in 1..n |->
               [a |-> zScoreOf(data[i].pol_a, pollutionStats.polA),
                b |-> zScoreOf(data[i].pol_b, pollutionStats.polB)]]
      \* the checks in the order of the forEach: A then B of each record
      checks == [k \in 1..(2 * n) |->
                   LET i == (k + 1) \div 2
                   IN  IF k % 2 = 1
                       THEN [record |-> data[i], pollutant |-> "Pollution A",
                             value |-> data[i].pol_a, z |-> zs[i].a]
                       ELSE [record |-> data[i], pollutant |-> "Pollution B",
                             value |-> data[i].pol_b, z |-> zs[i].b]]
      hits   == SelectSeq(checks, LAMBDA c : IsAnomalous(c.z))
      pushed == [k \in 1..Len(hits) |->
                   AnomalyEntry(hits[k].record, hits[k].pollutant, hits[k].value, hits[k].z)]
  IN  [zScores |-> zs, pushed |-> pushed, result |-> TopAnomalies(pushed)]

----------------------------------------------------------------------------
(* 2. Trend analysis *)

\* (n * sumXY - sumX * sumY) / (n * sumXX - sumX * sumX) over the points
\* [i, ys[i + 1]], i = 0 .. n - 1
calculateTrendSlope(points) ==
  LET n     == Len(points)
      sumX  == Sum([i \in 1..n |-> points[i].x])
      sumY  == RSum([i \in 1..n |-> points[i].y])
      sumXY == RSum([i \in 1..n |-> RMul(FromInt(points[i].x), points[i].y)])
      sumXX == Sum([i \in 1..n |-> points[i].x * points[i].x])
      num   == RSub(RMul(FromInt(n), sumXY), RMul(FromInt(sumX), sumY))
      den   == n * sumXX - sumX * sumX
      q     == RDiv(num, FromInt(den))
  IN  IF den = 0
      THEN [kind |-> IF num.n = 0 THEN "NaN" ELSE "Infinity", n |-> 0, d |-> 1]
      ELSE [kind |-> "finite", n |-> q.n, d |-> q.d]

\* dateGroups mapped to daily averages and sorted by date
dailyAveragesOf(data) ==
  LET dates  == KeysInOrder([i \in 1..Len(data) |-> DatePart(data[i].sample_dt)])
      groups == [k \in 1..Len(dates) |->
                   LET records == SelectSeq(data, LAMBDA r : DatePart(r.sample_dt) = dates[k])
                   IN  [date        |-> dates[k],
                        avgPolA     |-> Mean(PolA(records)),
                        avgPolB     |-> Mean(PolB(records)),
                        recordCount |-> Len(records)]]
      order  == SortedIndices([k \in 1..Len(groups) |-> groups[k].date])
  IN  [k \in 1..Len(groups) |-> groups[order[k]]]

\* two day buckets taken as enough
TwoDaysEnough(dailyAverages) == Len(dailyAverages) >= 2

\* if (dailyAverages.length >= 3)
EnoughDays(dailyAverages) == Len(dailyAverages) >= 3

\* pollutionATrend > 0 ? 'increasing' : 'decreasing'
directionOf(slope) ==
  IF slope.kind = "Infinity" \/ slope.n > 0 THEN "increasing" ELSE "decreasing"

\* the bound read as inclusive: Math.abs(pollutionATrend) >= 0.05
significanceInclusive(slope) ==
  IF slope.kind = "Infinity" \/ ~RLess(RAbs(slope), Rat(5, 100)) THEN "high" ELSE "moderate"

\* Math.abs(pollutionATrend) > 0.05 ? 'high' : 'moderate'
significanceOf(slope) ==
  IF slope.kind = "Infinity" \/ RLess(Rat(5, 100), RAbs(slope)) THEN "high" ELSE "moderate"

TrendEntry(pollutant, slope) ==
  [pollutant    |-> pollutant,
   direction    |-> directionOf(slope),
   slope        |-> [kind |-> slope.kind, units |-> ToFixed(slope, 10000)],
   significance |-> significanceOf(slope)]

\* the bound read as inclusive: Math.abs(pollutionATrend) >= 0.01
IsTrendInclusive(slope) ==
  slope.kind = "Infinity" \/ (slope.kind = "finite" /\ ~RLess(RAbs(slope), Rat(1, 100)))

\* Math.abs(pollutionATrend) > 0.01
IsTrend(slope) ==
  slope.kind = "Infinity" \/ (slope.kind = "finite" /\ RLess(Rat(1, 100), RAbs(slope)))

\* if (Math.abs(trend) > 0.01) trends.push(...)
TrendIfAny(pollutant, slope) ==
  IF IsTrend(slope) THEN <<TrendEntry(pollutant, slope)>> ELSE <<>>

\* every point at the x of the first day
TrendPointsAtOneX(averages) == [i \in 1..Len(averages) |-> [x |-> 0, y |-> averages[i]]]

\* dailyAverages.map((d, i) => [i, d.avgPolA])
TrendPoints(averages) == [i \in 1..Len(averages) |-> [x |-> i - 1, y |-> averages[i]]]

\* One run of analyzeTrends: the slopes it evaluates (none below three day
\* buckets) and the list it returns.
AnalyzeTrendsRun(data) ==
  LET dailyAverages == dailyAveragesOf(data)
      n == Len(dailyAverages)
      pointsA == TrendPoints([i \in 1..n |-> dailyAverages[i].avgPolA])
      pointsB == TrendPoints([i \in 1..n |-> dailyAverages[i].avgPolB])
      pollutionATrend == calculateTrendSlope(pointsA)
      pollutionBTrend == calculateTrendSlope(pointsB)
  IN  IF EnoughDays(dailyAverages)
      THEN [slopes |-> <<pollutionATrend, pollutionBTrend>>,
            points |-> <<pointsA, pointsB>>,
            result |-> TrendIfAny("Pollution A", pollutionATrend)
                       \o TrendIfAny("Pollution B", pollutionBTrend)]
      ELSE [slopes |-> <<>>, points |-> <<>>, result |-> <<>>]

----------------------------------------------------------------------------
(* 4. Risk assessment *)

Exceeds(r, level) == r.pol_a > level \/ r.pol_b > level

\* the brackets read as inclusive: >= 30, >= 15, >= 5
overallRiskInclusive(exceedanceRate) ==
  IF ~RLess(exceedanceRate, FromInt(30)) THEN "critical"
  ELSE IF ~RLess(exceedanceRate, FromInt(15)) THEN "high"
  ELSE IF ~RLess(exceedanceRate, FromInt(5)) THEN "moderate"
  ELSE "low"

\* exceedanceRate > 30 ? 'critical' : exceedanceRate > 15 ? 'high'
\*   : exceedanceRate > 5 ? 'moderate' : 'low'
overallRiskOf(exceedanceRate) ==
  IF RLess(FromInt(30), exceedanceRate) THEN "critical"
  ELSE IF RLess(FromInt(15), exceedanceRate) THEN "high"
  ELSE IF RLess(FromInt(5), exceedanceRate) THEN "moderate"
  ELSE "low"

\* the three checks as one chain, of which only the first that applies counts
riskFactorsChained(exceedanceRate, totalHighRisk, data) ==
  IF RLess(FromInt(20), exceedanceRate) THEN <<"High pollution exceedance rate">>
  ELSE IF totalHighRisk > 3 THEN <<"Multiple high-risk stations">>
  ELSE IF \E i \in 1..Len(data) : Exceeds(data[i], 15)
       THEN <<"Extreme pollution readings detected">>
  ELSE <<>>

\* the first factor from a rate of 10 on instead of 20
riskFactorsFromTen(exceedanceRate, totalHighRisk, data) ==
     (IF RLess(FromInt(10), exceedanceRate)
      THEN <<"High pollution exceedance rate">> ELSE <<>>)
  \o (IF totalHighRisk > 3 THEN <<"Multiple high-risk stations">> ELSE <<>>)
  \o (IF \E i \in 1..Len(data) : Exceeds(data[i], 15)
      THEN <<"Extreme pollution readings detected">> ELSE <<>>)

\* the three spreads of the riskFactors array
riskFactorsOf(exceedanceRate, totalHighRisk, data) ==
     (IF RLess(FromInt(20), exceedanceRate)
      THEN <<"High pollution exceedance rate">> ELSE <<>>)
  \o (IF totalHighRisk > 3 THEN <<"Multiple high-risk stations">> ELSE <<>>)
  \o (IF \E i \in 1..Len(data) : Exceeds(data[i], 15)
      THEN <<"Extreme pollution readings detected">> ELSE <<>>)

assessRisks(data, stationSummary) ==
  LET totalHighRisk   == Len(SelectSeq(stationSummary, LAMBDA st : st.riskLevel = "high"))
      totalMediumRisk == Len(SelectSeq(stationSummary, LAMBDA st : st.riskLevel = "medium"))
      exceedanceRate  == Rat(100 * Len(SelectSeq(data, LAMBDA r : Exceeds(r, 7))), Len(data))
  IN  [overallRisk        |-> overallRiskOf(exceedanceRate),
       exceedanceRate     |-> ToFixed(exceedanceRate, 10),
       highRiskStations   |-> totalHighRisk,
       mediumRiskStations |-> totalMediumRisk,
       criticalReadings   |-> Len(SelectSeq(data, LAMBDA r : Exceeds(r, 10))),
       riskFactors        |-> riskFactorsOf(exceedanceRate, totalHighRisk, data)]

----------------------------------------------------------------------------
(* 5. Predictive analysis *)

\* stationData.sort((a, b) => new Date(b.sample_dt).getTime()
\*                           - new Date(a.sample_dt).getTime()):
\* the array after the sort, which is done in place
SortNewestFirst(data) ==
  LET order == SortedIndices([i \in 1..Len(data) |-> -data[i].sample_dt])
  IN  [k \in 1..Len(data) |-> data[order[k]]]

\* the window without the cap of 100 rows
WindowUncapped(n) == (3 * n) \div 10

\* Math.min(100, Math.floor(stationData.length * 0.3))
WindowSize(n) == IF (3 * n) \div 10 < 100 THEN (3 * n) \div 10 ELSE 100

\* the object {}
EmptyObject == [present |-> FALSE]

\* stationData.sort(...).slice(0, ...)
recentDataOf(data) == SubSeq(SortNewestFirst(data), 1, WindowSize(Len(data)))

\* a window mean equal to the global average read as increasing
trendInclusive(recentAvg, avg) ==
  IF ~RLess(recentAvg, avg) THEN "increasing" ELSE "decreasing"

\* recentAvg > pollutionStats.avg ? 'increasing' : 'decreasing'
trendOf(recentAvg, avg) ==
  IF RLess(avg, recentAvg) THEN "increasing" ELSE "decreasing"

\* the brackets of the forecast read as inclusive: >= 40, >= 20
forecastRiskLevelInclusive(riskProbability) ==
  IF ~RLess(riskProbability, FromInt(40)) THEN "high"
  ELSE IF ~RLess(riskProbability, FromInt(20)) THEN "moderate"
  ELSE "low"

\* riskProbability > 40 ? 'high' : riskProbability > 20 ? 'moderate' : 'low'
forecastRiskLevelOf(riskProbability) ==
  IF RLess(FromInt(40), riskProbability) THEN "high"
  ELSE IF RLess(FromInt(20), riskProbability) THEN "moderate"
  ELSE "low"

generatePredictions(data, pollutionStats) ==
  LET recentData == recentDataOf(data)
      recentAvgA == Mean(PolA(recentData))
      recentAvgB == Mean(PolB(recentData))
      riskProbability ==
        Rat(100 * Len(SelectSeq(recentData, LAMBDA r : Exceeds(r, 7))), Len(recentData))
      confidence == IF Len(recentData) > 50 THEN "high" ELSE "moderate"
  IN  IF Len(recentData) > 10
      THEN [present |-> TRUE,
            shortTerm |->
              [pollutionA |->
                 [trend |-> trendOf(recentAvgA, pollutionStats.polA.avg),
                  projectedLevel |-> ToFixed(recentAvgA, 100),
                  confidence |-> confidence],
               pollutionB |->
                 [trend |-> trendOf(recentAvgB, pollutionStats.polB.avg),
                  projectedLevel |-> ToFixed(recentAvgB, 100),
                  confidence |-> confidence]],
            riskForecast |->
              [exceedanceProbability |-> ToFixed(riskProbability, 10),
               riskLevel |-> forecastRiskLevelOf(riskProbability),
               recommendation |-> IF RLess(FromInt(30), riskProbability)
                                  THEN "Implement immediate monitoring protocols"
                                  ELSE "Continue regular monitoring"]]
      ELSE EmptyObject

----------------------------------------------------------------------------
(* 3. Geographic pattern analysis *)

\* Math.PI, to seven decimals
PI == Rat(355, 113)

\* The haversine distance in km (R = 6371).  All modelled stations lie on
\* one meridian, where dLon = 0 and the formula reduces to R * |dLat| in
\* radians; lat is in hundredths of a degree.
calculateDistance(coord1, coord2) ==
  RMul(RMul(FromInt(6371), PI), Rat(Abs(coord2.lat - coord1.lat), 18000))

\* the filter without other.id !== station.id
IsNearbyOrSelf(station, other) ==
  RLess(calculateDistance(station.location, other.location), FromInt(50))

\* other.id !== station.id && calculateDistance(...) < 50, on high-risk stations
IsNearbyHighRisk(station, other) ==
  /\ other.id # station.id
  /\ RLess(calculateDistance(station.location, other.location), FromInt(50))

\* the filter without the test of the risk level
IsNearbyOfAnyLevel(station, other) ==
  /\ other.id # station.id
  /\ RLess(calculateDistance(station.location, other.location), FromInt(25))

\* other.id !== station.id && calculateDistance(...) < 25 &&
\* (other.riskLevel === 'high' || other.riskLevel === 'medium')
IsNearbyAnyRisk(station, other) ==
  /\ other.id # station.id
  /\ RLess(calculateDistance(station.location, other.location), FromInt(25))
  /\ (other.riskLevel = "high" \/ other.riskLevel = "medium")

analyzeGeographicPatterns(stationSummary) ==
  LET highRiskStations == SelectSeq(stationSummary, LAMBDA st : st.riskLevel = "high")
      nearbyHighRisk(station) ==
        SelectSeq(highRiskStations, LAMBDA other : IsNearbyHighRisk(station, other))
      centers  == SelectSeq(highRiskStations, LAMBDA st : Len(nearbyHighRisk(st)) > 0)
      hotspots == [k \in 1..Len(centers) |->
                     [center         |-> centers[k],
                      nearbyStations |-> nearbyHighRisk(centers[k]),
                      severity       |-> "high"]]
      nearbyAnyRisk(station) ==
        SelectSeq(stationSummary, LAMBDA other : IsNearbyAnyRisk(station, other))
      isolatedRisks == SelectSeq(highRiskStations, LAMBDA st : Len(nearbyAnyRisk(st)) = 0)
  IN  hotspots \o [k \in 1..Len(isolatedRisks) |->
                     [type     |-> "isolated_risk",
                      station  |-> isolatedRisks[k],
                      severity |-> "medium"]]

----------------------------------------------------------------------------
(* The context builder *)

\* !stationData || stationData.length === 0, for a body that holds a
\* stationData (has) or none
NoData(has, data) == IF has THEN Len(data) = 0 ELSE TRUE

\* the structure returned for no data
ZeroedContext ==
  [totalStations    |-> 0,
   totalRecords     |-> 0,
   pollutionStats   |-> [polA |-> [avg |-> Zero, max |-> 0, min |-> 0, high_count |-> 0],
                         polB |-> [avg |-> Zero, max |-> 0, min |-> 0, high_count |-> 0]],
   stationSummary   |-> <<>>,
   advancedAnalytics |-> [anomalies          |-> <<>>,
                          trends             |-> <<>>,
                          geographicPatterns |-> <<>>,
                          riskAssessment     |-> EmptyObject,
                          predictions        |-> EmptyObject]]

\* One run of buildAdvancedDataContext on a non-empty array: the context it
\* returns (dateRange, a text of the local time zone, is left out), what
\* detectAnomalies and analyzeTrends computed on the way, and the array as
\* generatePredictions leaves it.
FullRun(data) ==
  LET pollutionStats == pollutionStatsOf(data)
      stationSummary == stationSummaryOf(data)
      detect         == DetectAnomaliesRun(data, pollutionStats)
      trend          == AnalyzeTrendsRun(data)
  IN  [context |->
         [totalStations    |-> Cardinality({data[i].station_id : i \in 1..Len(data)}),
          totalRecords     |-> Len(data),
          pollutionStats   |-> pollutionStats,
          stationSummary   |-> stationSummary,
          advancedAnalytics |->
            [anomalies          |-> detect.result,
             trends             |-> trend.result,
             geographicPatterns |-> analyzeGeographicPatterns(stationSummary),
             riskAssessment     |-> assessRisks(data, stationSummary),
             predictions        |-> generatePredictions(data, pollutionStats)]],
       zScores |-> detect.zScores,
       pushed  |-> detect.pushed,
       slopes  |-> trend.slopes,
       points  |-> trend.points,
       window  |-> recentDataOf(data),
       sorted  |-> SortNewestFirst(data)]

FullContext(data) == FullRun(data).context

buildAdvancedDataContext(has, data) ==
  IF NoData(has, data) THEN ZeroedContext ELSE FullContext(data)

\* the analyzers a call of buildAdvancedDataContext invokes
Analyzers ==
  {"detectAnomalies", "analyzeTrends", "analyzeGeographicPatterns",
   "assessRisks", "generatePredictions"}

\* before the first call
None == [none |-> TRUE]

----------------------------------------------------------------------------
(* The state machine: one array, handed to buildAdvancedDataContext up to  *)
(* MaxCalls times.                                                          *)
(*   given        whether the request body holds a stationData at all       *)
(*   stationData  the array as it is now (empty when none is given)         *)
(*   context      what the latest call returned                             *)
(*   previous     what the call before it returned                          *)
(*   calls        the number of calls so far                                *)
(*   run          the latest call: the array at its start, the analyzers it *)
(*                invoked, the z-scores computed, the anomalies pushed      *)
(*                before the sort and slice, the slopes evaluated and the   *)
(*                points calculateTrendSlope was called with, the           *)
(*                forecaster's recent window                                *)

\* no request is being handled
\* the filters of a fresh page; null is the text "null"
DEFAULT_FILTERS ==
  [stationQuery |-> "", dateFrom |-> "null", dateTo |-> "null", polAMin |-> 0, polBMin |-> 0]

\* the map page before any command: default filters, no station focused or
\* highlighted, no command seen
MapAtRest ==
  /\ filters = DEFAULT_FILTERS
  /\ focusedStationId = "null"
  /\ highlightedStationIds = <<>>
  /\ lastCommand = None
  /\ commandHistory = <<>>
  /\ forwarded = <<>>
  /\ issued = <<>>
  /\ steps = <<>>

HandlerAtRest ==
  /\ build = "part_001"
  /\ framework = "express 4"
  /\ reqBody = None
  /\ pc = "idle"
  /\ responses = <<>>
  /\ llmCalls = 0
  /\ analyses = 0

\* the chat holds no rows and nothing was sent
ChatAtRest ==
  /\ clientData = <<>>
  /\ phase = "idle"
  /\ fetches = 0
  /\ backend = "pending"
  /\ promise = None
  /\ executed = <<>>
  /\ messages = <<>>
  /\ input = ""
  /\ isTyping = FALSE
  /\ sent = <<>>

Init ==
  /\ given \in BOOLEAN
  /\ stationData \in (IF given THEN Inputs ELSE {<<>>})
  /\ roundsUp = FALSE
  /\ context = None
  /\ previous = None
  /\ calls = 0
  /\ run = None
  /\ HandlerAtRest
  /\ ChatAtRest
  /\ MapAtRest

\* the early return placed after the analyzers, which then run on no rows
LateReturn ==
  /\ calls < MaxCalls
  /\ NoData(given, stationData)
  /\ context' = buildAdvancedDataContext(given, stationData)
  /\ previous' = context
  /\ calls' = calls + 1
  /\ run' = [entry |-> stationData, invoked |-> Analyzers, zScores |-> <<>>,
             pushed |-> <<>>, slopes |-> <<>>, points |-> <<>>, window |-> <<>>]
  /\ UNCHANGED <<given, stationData, roundsUp, serverVars, clientVars, mapVars>>

\* buildAdvancedDataContext on no data: the early return
EarlyReturn ==
  /\ calls < MaxCalls
  /\ NoData(given, stationData)
  /\ context' = buildAdvancedDataContext(given, stationData)
  /\ previous' = context
  /\ calls' = calls + 1
  /\ run' = [entry |-> stationData, invoked |-> {}, zScores |-> <<>>,
             pushed |-> <<>>, slopes |-> <<>>, points |-> <<>>, window |-> <<>>]
  /\ UNCHANGED <<given, stationData, roundsUp, serverVars, clientVars, mapVars>>

\* buildAdvancedDataContext on a non-empty array; generatePredictions sorts
\* the array in place
Analyze ==
  /\ calls < MaxCalls
  /\ ~NoData(given, stationData)
  /\ \E r \in {FullRun(stationData)} :
         /\ context' = r.context
         /\ run' = [entry |-> stationData, invoked |-> Analyzers,
                    zScores |-> r.zScores, pushed |-> r.pushed, slopes |-> r.slopes,
                    points |-> r.points,
                    window |-> r.window]
         /\ stationData' = r.sorted
  /\ previous' = context
  /\ calls' = calls + 1
  /\ UNCHANGED <<given, roundsUp, serverVars, clientVars, mapVars>>

Next == EarlyReturn \/ Analyze

Spec == Init /\ [][Next]_vars

\* n readings of one station and one hour, of which the first c carry
\* pol_a = n (far above every limit) and the others 0: the mean is c
VolumeRows(n, c) ==
  [i \in 1..n |-> Reading("S1", "Alpha", -2355, -4663, At(0, 0), IF i <= c THEN n ELSE 0, 0)]

\* uploads of about two thousand readings with at most two above the limit
VolumeInputs ==
  {VolumeRows(n, c) : n \in (MaxVolume - 1)..MaxVolume, c \in 0..2}

\* the calls of Spec and calls on the large uploads
VolumeInit ==
  /\ given \in BOOLEAN
  /\ stationData \in (IF given THEN Inputs \cup VolumeInputs ELSE {<<>>})
  /\ roundsUp = FALSE
  /\ context = None
  /\ previous = None
  /\ calls = 0
  /\ run = None
  /\ HandlerAtRest
  /\ ChatAtRest
  /\ MapAtRest

VolumeSpec == VolumeInit /\ [][Next]_vars

\* nine readings of 0 and one of 7 for pollutant A: its z-score is exactly 3
TieInputs == {Block(9, <<Outlier(1, <<7, 0>>)>>)}

\* the same calls computed with doubles: a z-score equal to a bound may
\* round to either side of it
DoubleInit ==
  /\ given \in BOOLEAN
  /\ stationData \in (IF given THEN Inputs \cup TieInputs ELSE {<<>>})
  /\ roundsUp \in BOOLEAN
  /\ context = None
  /\ previous = None
  /\ calls = 0
  /\ run = None
  /\ HandlerAtRest
  /\ ChatAtRest
  /\ MapAtRest

DoubleSpec == DoubleInit /\ [][Next]_vars

----------------------------------------------------------------------------
(* The request handler of POST /api/ai/chat, one request per behaviour.     *)
(*   build      the copy of the handler: server/server.js or the later one *)
(*              with the advanced analytics (part_001)                      *)
(*   framework  the Express major version the server runs on, which the    *)
(*              sources do not fix                                          *)
(*   reqBody    req.body as parsed by express.json()                        *)
(*   pc         idle, awaiting (the LLM call), done (the handler has        *)
(*              returned), escaped (an exception left the handler)          *)
(*   responses  the responses sent for the request                          *)
(*   llmCalls   calls of openai.chat.completions.create                     *)
(*   analyses   calls of the context builder                                *)

\* the value undefined of a property the body does not have
Undefined == "undefined"

Builds == {"server.js", "part_001"}

Frameworks == {"express 4", "express 5"}

\* an item of the stationData array: a row with a date of a Monday, a row
\* whose sample_dt does not parse as a date, or null
Items == {"row", "undated", "null"}

\* stationData of the body: absent, an array, the string "abc", the number 5
StationDataValues ==
  {[kind |-> k, items |-> <<>>] : k \in {Undefined, "string", "number"}}
    \cup {[kind |-> "array", items |-> f] : f \in UNION {[1..k -> Items] : k \in 0..MaxItems}}

Bodies == [message : {Undefined, "", "Where are the hotspots?"}, stationData : StationDataValues]

\* if (!message)
MessageMissing(b) == b.message \in {Undefined, ""}

\* whether the context builder throws: on d.station_id of a null item, on
\* stationData.map of a value that is no array, and, in server.js, on
\* dates[0].toISOString() of an invalid date, which the later copy filters out
ContextThrows(b, sd) ==
  IF sd.kind = Undefined THEN FALSE
  ELSE IF sd.kind = "array"
       THEN \/ \E i \in 1..Len(sd.items) : sd.items[i] = "null"
            \/ b = "server.js" /\ \E i \in 1..Len(sd.items) : sd.items[i] = "undated"
       ELSE TRUE

\* whether the catch block throws.  server.js reads stationData, which is
\* declared inside the try block and so is not defined in the catch block;
\* the later copy reads req.body.stationData and maps over it when its
\* length is above 0.
CatchThrows(b, sd) ==
  IF b = "server.js" THEN TRUE
  ELSE IF sd.kind = "array" THEN \E i \in 1..Len(sd.items) : sd.items[i] = "null"
  ELSE sd.kind = "string"

\* res.status(400).json({ error: 'Message is required' })
BadRequest == [status |-> 400, kind |-> "error", mapCommands |-> <<>>, data |-> "none"]

\* res.json({ message: result.message, mapCommands: result.mapCommands || [], data: context })
ResultBody(outcome) ==
  [status |-> 200, kind |-> "result",
   mapCommands |-> IF outcome = "commands" THEN <<"focus_station">> ELSE <<>>,
   data |-> "context"]

\* the fallback body of the catch block
FallbackBody == [status |-> 200, kind |-> "fallback", mapCommands |-> <<>>, data |-> "null"]

\* the default error handler of Express 5, which is handed the rejection of
\* an async handler; Express 4 is not
FrameworkError == [status |-> 500, kind |-> "framework", mapCommands |-> <<>>, data |-> "none"]

\* the catch block: either the fallback body is sent or the exception it
\* throws leaves the handler
Caught ==
  IF CatchThrows(build, reqBody.stationData)
  THEN /\ pc' = "escaped"
       /\ responses' = IF framework = "express 5"
                       THEN Append(responses, FrameworkError) ELSE responses
  ELSE /\ pc' = "done"
       /\ responses' = Append(responses, FallbackBody)

\* the handler from its start to the await of the LLM call, or to its end
Receive ==
  /\ pc = "idle"
  /\ IF MessageMissing(reqBody)
     THEN /\ responses' = Append(responses, BadRequest)
          /\ pc' = "done"
          /\ UNCHANGED <<llmCalls, analyses>>
     ELSE /\ analyses' = analyses + 1
          /\ IF ContextThrows(build, reqBody.stationData)
             THEN Caught /\ UNCHANGED llmCalls
             ELSE /\ llmCalls' = llmCalls + 1
                  /\ pc' = "awaiting"
                  /\ UNCHANGED responses
  /\ UNCHANGED <<build, framework, reqBody, analysisVars, clientVars, mapVars>>

\* what the LLM call comes to: JSON with or without mapCommands, an empty
\* content (replaced by a default JSON text), a content that is no JSON, or
\* a rejection
LlmOutcomes == {"commands", "plain", "empty", "garbled", "rejected"}

\* the handler from the settled LLM call to its end
LlmSettles ==
  /\ pc = "awaiting"
  /\ \E outcome \in LlmOutcomes :
        IF outcome \in {"garbled", "rejected"}
        THEN Caught
        ELSE /\ responses' = Append(responses, ResultBody(outcome))
             /\ pc' = "done"
  /\ UNCHANGED <<build, framework, reqBody, llmCalls, analyses, analysisVars, clientVars, mapVars>>

ServerInit ==
  /\ build \in Builds
  /\ framework \in Frameworks
  /\ reqBody \in Bodies
  /\ pc = "idle"
  /\ responses = <<>>
  /\ llmCalls = 0
  /\ analyses = 0
  /\ given = FALSE /\ stationData = <<>> /\ context = None /\ roundsUp = FALSE
  /\ previous = None /\ calls = 0 /\ run = None
  /\ ChatAtRest
  /\ MapAtRest

ServerNext == Receive \/ LlmSettles

ServerSpec == ServerInit /\ [][ServerNext]_vars

----------------------------------------------------------------------------
(* The chat client: handleSend of ChatBot.tsx and generateResponse of       *)
(* openaiService.ts: one message per behaviour (ClientSpec) or several     *)
(* (ChatSpec).                                                              *)
(*   clientData  the rows imported from CSV; parseCSV checks the numbers    *)
(*               of a row but not its sample_dt                             *)
(*   phase       idle, fetching (await fetch), parsing (await               *)
(*               response.json()), settled (generateResponse has resolved   *)
(*               or rejected), shown (handleSend has returned)              *)
(*   fetches     calls of fetch                                             *)
(*   backend     what the backend call came to                              *)
(*   promise     the promise generateResponse returned                      *)
(*   executed    the map commands handed to executeCommands, each with the  *)
(*               number of messages shown when it was handed over           *)
(*   messages    the chat messages shown                                    *)
(*   input       the text in the text box                                   *)
(*   isTyping    the typing indicator                                       *)
(*   sent        the text of the box at each call of handleSend             *)

\* Date.prototype.toString() of a row's date, cut to its first word, in the
\* ascending order in which Array.prototype.sort() without a comparator
\* puts the texts: a Friday, a sample_dt that is no date, a Monday
DateTexts == <<"Fri", "Invalid Date", "Mon">>

ClientRows == [station_id : {"S1", "S2"}, date : Range(DateTexts)]

ClientInputs == UNION {[1..k -> ClientRows] : k \in 0..MaxClientRows}

DateRank(text) == CHOOSE i \in 1..Len(DateTexts) : DateTexts[i] = text

\* stationData.map(d => new Date(d.sample_dt)).sort()
SortedDates(data) ==
  LET order == SortedIndices([i \in 1..Len(data) |-> DateRank(data[i].date)])
  IN  [k \in 1..Len(data) |-> data[order[k]].date]

\* whether buildDataContext throws: toISOString() of an invalid date, taken
\* of the first and of the last of the sorted dates, is a RangeError
buildDataContextThrows(data) ==
  IF Len(data) = 0 THEN FALSE
  ELSE \E dates \in {SortedDates(data)} :
          dates[1] = "Invalid Date" \/ dates[Len(dates)] = "Invalid Date"

\* the message of a fallback: the no-data text or the text with the counts
FallbackText(data) ==
  IF Len(data) = 0 THEN [text |-> "no data", records |-> 0, stations |-> 0]
  ELSE [text |-> "technical difficulties", records |-> Len(data),
        stations |-> Cardinality({data[i].station_id : i \in 1..Len(data)})]

\* the message of the backend's body
BackendText == [text |-> "backend", records |-> 0, stations |-> 0]

Pending == [state |-> "pending", message |-> BackendText, mapCommands |-> <<>>]

\* the catch block of generateResponse: the fallback AIResponse, unless
\* buildDataContext throws
generateResponseCatch(data) ==
  IF buildDataContextThrows(data)
  THEN [state |-> "rejected", message |-> BackendText, mapCommands |-> <<>>]
  ELSE [state |-> "resolved", message |-> FallbackText(data), mapCommands |-> <<>>]


----------------------------------------------------------------------------
(* Map commands: MapCommandProvider.executeCommands and the handler it is  *)
(* given, handleMapCommands of the Home component                          *)

\* the longest batch, the most calls, the most commands over all calls
MaxBatch == 2

MaxBatches == 2

MaxHistory == 3

\* a payload: each field is <<>> when absent and <<value>> when present
\* (stationIds: the ids, and whether they are an array)
NoPayload ==
  [stationId |-> <<>>, stationIds |-> <<>>, polA_min |-> <<>>, polB_min |-> <<>>,
   date_from |-> <<>>, date_to |-> <<>>, stationQuery |-> <<>>, days |-> <<>>]

Command(type, data) == [type |-> type, data |-> data]

\* commands as the assistant's reply may carry them: with the payload of
\* their type, without it, with an empty text in it, and of an unknown type
Commands ==
  {Command("focus_station", [NoPayload EXCEPT !.stationId = <<"S1">>]),
   Command("focus_station", [NoPayload EXCEPT !.stationId = <<"S2">>]),
   Command("focus_station", NoPayload),
   Command("highlight_stations", [NoPayload EXCEPT !.stationIds = <<[array |-> TRUE, ids |-> <<"S2", "S3">>]>>]),
   Command("highlight_stations", [NoPayload EXCEPT !.stationIds = <<[array |-> FALSE, ids |-> <<"S2">>]>>]),
   Command("filter_data", [NoPayload EXCEPT !.polA_min = <<5>>]),
   Command("filter_data", [NoPayload EXCEPT !.polA_min = <<0>>, !.polB_min = <<7>>,
                                            !.stationQuery = <<"Alpha">>]),
   Command("filter_data", [NoPayload EXCEPT !.date_from = <<"2024-01-01">>,
                                            !.date_to = <<"">>]),
   Command("apply_time_filter", [NoPayload EXCEPT !.days = <<7>>]),
   Command("set_zoom", NoPayload),
   Command("clear_map", [NoPayload EXCEPT !.stationId = <<"S1">>])}

RECURSIVE SeqsUpTo(_, _)
SeqsUpTo(S, n) ==
  IF n = 0 THEN {<<>>}
  ELSE SeqsUpTo(S, n - 1)
         \cup {Append(q, x) : q \in {p \in SeqsUpTo(S, n - 1) : Len(p) = n - 1}, x \in S}

Batches == SeqsUpTo(Commands, MaxBatch)

\* a present field with a truthy value
Truthy(field) == IF field = <<>> THEN FALSE ELSE field[1] # ""

\* command.data.stationIds && Array.isArray(command.data.stationIds): the
\* field carries the ids and whether they came as an array or as one text
IsArray(field) == IF field = <<>> THEN FALSE ELSE field[1].array

\* the date part of the ISO text of a date that many days before today
DaysBefore(days) == IF days = 0 THEN "today" ELSE "days before today"

\* the filters as every filter_data command resets them
filterDataOverDefaults(prev, data) ==
  [stationQuery |-> IF Truthy(data.stationQuery) THEN data.stationQuery[1] ELSE "",
   dateFrom     |-> IF Truthy(data.date_from) THEN data.date_from[1] ELSE "null",
   dateTo       |-> IF Truthy(data.date_to) THEN data.date_to[1] ELSE "null",
   polAMin      |-> IF data.polA_min # <<>> THEN data.polA_min[1] ELSE 0,
   polBMin      |-> IF data.polB_min # <<>> THEN data.polB_min[1] ELSE 0]

\* setFilters(prev => ({ ...prev, ...newFilters })): polA_min and polB_min
\* count when not undefined, the texts when truthy
filterData(prev, data) ==
  [stationQuery |-> IF Truthy(data.stationQuery) THEN data.stationQuery[1] ELSE prev.stationQuery,
   dateFrom     |-> IF Truthy(data.date_from) THEN data.date_from[1] ELSE prev.dateFrom,
   dateTo       |-> IF Truthy(data.date_to) THEN data.date_to[1] ELSE prev.dateTo,
   polAMin      |-> IF data.polA_min # <<>> THEN data.polA_min[1] ELSE prev.polAMin,
   polBMin      |-> IF data.polB_min # <<>> THEN data.polB_min[1] ELSE prev.polBMin]

\* one pass of the forEach: the page state after the switch on command.type
ApplyCommand(s, command) ==
  IF command.type = "focus_station"
  THEN IF Truthy(command.data.stationId)
       THEN [s EXCEPT !.focusedStationId = command.data.stationId[1],
                      !.highlightedStationIds = <<command.data.stationId[1]>>]
       ELSE s
  ELSE IF command.type = "highlight_stations"
  THEN IF IsArray(command.data.stationIds)
       THEN [s EXCEPT !.highlightedStationIds = command.data.stationIds[1].ids]
       ELSE s
  ELSE IF command.type = "filter_data"
  THEN [s EXCEPT !.filters = filterData(s.filters, command.data)]
  ELSE IF command.type = "apply_time_filter"
  THEN IF command.data.days # <<>>
       THEN IF command.data.days[1] # 0
            THEN [s EXCEPT !.filters.dateFrom = DaysBefore(command.data.days[1]),
                           !.filters.dateTo = DaysBefore(0)]
            ELSE s
       ELSE s
  ELSE s

\* the page state after the first k commands of the forEach
RECURSIVE StateAfter(_, _, _)
StateAfter(s, commands, k) ==
  IF k = 0 THEN s ELSE ApplyCommand(StateAfter(s, commands, k - 1), commands[k])

\* the commands in the order in which the loop takes them
forEachOrderReversed(commands) ==
  [k \in 1..Len(commands) |-> commands[Len(commands) + 1 - k]]

forEachOrder(commands) == commands

\* the passes of handleMapCommands: the command taken and the page state
\* before and after it
handleMapCommands(s, commands) ==
  [k \in 1..Len(commands) |->
     [command |-> forEachOrder(commands)[k],
      before  |-> StateAfter(s, forEachOrder(commands), k - 1),
      after   |-> StateAfter(s, forEachOrder(commands), k)]]

\* setLastCommand for every batch, the empty one included
lastCommandUnguarded(prev, commands) ==
  IF Len(commands) > 0 THEN commands[Len(commands)] ELSE None

\* if (commands.length > 0) setLastCommand(commands[commands.length - 1])
lastCommandAfter(prev, commands) ==
  IF Len(commands) > 0 THEN commands[Len(commands)] ELSE prev

PageState ==
  [filters |-> filters, focusedStationId |-> focusedStationId,
   highlightedStationIds |-> highlightedStationIds]

\* one call of executeCommands, with the call of onExecuteCommands in it and
\* the state updates of both applied
executeCommandsCall(commands) ==
  /\ issued' = Append(issued, commands)
  /\ commandHistory' = commandHistory \o commands
  /\ lastCommand' = lastCommandAfter(lastCommand, commands)
  /\ forwarded' = Append(forwarded, commands)
  /\ \E passes \in {handleMapCommands(PageState, commands)} :
       /\ steps' = passes
       /\ \E s \in {IF passes = <<>> THEN PageState ELSE passes[Len(passes)].after} :
            /\ filters' = s.filters
            /\ focusedStationId' = s.focusedStationId
            /\ highlightedStationIds' = s.highlightedStationIds

\* executeCommands called with any batch
executeCommands ==
  /\ Len(issued) < MaxBatches
  /\ \E commands \in Batches :
       /\ Len(commandHistory) + Len(commands) <= MaxHistory
       /\ executeCommandsCall(commands)
  /\ UNCHANGED <<analysisVars, serverVars, clientVars>>

MapInit ==
  /\ MapAtRest
  /\ given = FALSE /\ stationData = <<>> /\ context = None /\ roundsUp = FALSE
  /\ previous = None /\ calls = 0 /\ run = None
  /\ HandlerAtRest
  /\ ChatAtRest

MapNext == executeCommands

MapSpec == MapInit /\ [][MapNext]_vars

----------------------------------------------------------------------------
(* The chat client's steps *)

\* the most calls of handleSend in a behaviour
MaxSends == 3

\* the welcome message that the mount effect puts into the empty chat
WelcomeMessage ==
  [type |-> "bot", content |-> [text |-> "welcome", records |-> 0, stations |-> 0]]

\* what can stand in the text box: nothing, blanks, a question
Texts == {"", "  ", "Where are the hotspots?"}

\* input.trim()
Trim(text) == IF text = "  " THEN "" ELSE text

\* a text box that stays enabled
InputNeverDisabled == FALSE

\* disabled={isTyping} of the text box; the send button is disabled then
\* too, and for a blank input
InputDisabled == isTyping

\* the reply of the backend that carries a map command
ReplyCommands == <<Command("focus_station", [NoPayload EXCEPT !.stationId = <<"S1">>])>>

\* onChange of the text box, or one of the quick actions, which are shown
\* while there is at most one message
setInput ==
  /\ IF InputDisabled THEN Len(messages) <= 1 ELSE TRUE
  /\ \E text \in Texts \ {input} : input' = text
  /\ UNCHANGED <<clientData, phase, fetches, backend, promise, executed, messages,
                 isTyping, sent, analysisVars, serverVars, mapVars>>

\* handleSend, called by Enter in the text box or by the send button, up to
\* the await of generateResponse, which runs up to the await of fetch; a
\* blank input returns at once
handleSend ==
  /\ ~InputDisabled
  /\ Len(sent) < MaxSends
  /\ sent' = Append(sent, input)
  /\ IF Trim(input) = ""
     THEN UNCHANGED <<messages, input, isTyping, fetches, promise, phase>>
     ELSE /\ messages' = Append(messages, [type |-> "user", content |-> [text |-> input, records |-> 0, stations |-> 0]])
          /\ input' = ""
          /\ isTyping' = TRUE
          /\ fetches' = fetches + 1
          /\ promise' = Pending
          /\ phase' = "fetching"
  /\ UNCHANGED <<clientData, backend, executed, analysisVars, serverVars, mapVars>>

\* fetch settles: it rejects, or it resolves with a status that is not OK,
\* or with one that is OK
FetchSettles ==
  /\ phase = "fetching"
  /\ \E outcome \in {"network error", "not ok", "ok"} :
        /\ backend' = outcome
        /\ IF outcome = "ok"
           THEN phase' = "parsing" /\ UNCHANGED promise
           ELSE phase' = "settled" /\ promise' = generateResponseCatch(clientData)
  /\ UNCHANGED <<clientData, fetches, executed, messages, input, isTyping, sent,
                 analysisVars, serverVars, mapVars>>

\* response.json() settles: the body is no JSON, or it is the JSON null
\* (result.message throws), or it is an object with or without mapCommands
JsonSettles ==
  /\ phase = "parsing"
  /\ \E outcome \in {"unparsable", "null", "commands", "plain"} :
        /\ backend' = outcome
        /\ promise' =
             IF outcome \in {"unparsable", "null"} THEN generateResponseCatch(clientData)
             ELSE [state |-> "resolved", message |-> BackendText,
                   mapCommands |-> IF outcome = "commands" THEN ReplyCommands ELSE <<>>]
  /\ phase' = "settled"
  /\ UNCHANGED <<clientData, fetches, executed, messages, input, isTyping, sent,
                 analysisVars, serverVars, mapVars>>

\* handleSend after the await: the commands are executed and then the
\* response is shown, or, in its catch block, its own fallback text is shown;
\* finally the typing indicator is cleared
handleSendResumes ==
  /\ phase = "settled"
  /\ IF promise.state = "resolved"
     THEN /\ IF Len(promise.mapCommands) > 0
             THEN /\ executed' = executed \o
                       [k \in 1..Len(promise.mapCommands) |->
                          [command |-> promise.mapCommands[k], shown |-> Len(messages)]]
                  /\ executeCommandsCall(promise.mapCommands)
             ELSE UNCHANGED <<executed, mapVars>>
          /\ messages' = Append(messages, [type |-> "bot", content |-> promise.message])
     ELSE /\ messages' = Append(messages, [type |-> "bot", content |-> FallbackText(clientData)])
          /\ UNCHANGED <<executed, mapVars>>
  /\ isTyping' = FALSE
  /\ phase' = "shown"
  /\ UNCHANGED <<clientData, fetches, backend, promise, input, sent, analysisVars, serverVars>>

ClientInit ==
  /\ clientData \in ClientInputs
  /\ phase = "idle"
  /\ fetches = 0
  /\ backend = "pending"
  /\ promise = None
  /\ executed = <<>>
  /\ messages = <<WelcomeMessage>>
  /\ input = ""
  /\ isTyping = FALSE
  /\ sent = <<>>
  /\ given = FALSE /\ stationData = <<>> /\ context = None /\ roundsUp = FALSE
  /\ previous = None /\ calls = 0 /\ run = None
  /\ HandlerAtRest
  /\ MapAtRest

\* the first message of a behaviour
FirstSend == fetches = 0 /\ handleSend

ClientNext == setInput \/ FirstSend \/ FetchSettles \/ JsonSettles \/ handleSendResumes

ClientSpec == ClientInit /\ [][ClientNext]_vars

\* a chat with no row, or with one row, whose date may be no date
ChatInputs == {data \in ClientInputs : Len(data) <= 1}

ChatInit ==
  /\ clientData \in ChatInputs
  /\ phase = "idle"
  /\ fetches = 0
  /\ backend = "pending"
  /\ promise = None
  /\ executed = <<>>
  /\ messages = <<WelcomeMessage>>
  /\ input = ""
  /\ isTyping = FALSE
  /\ sent = <<>>
  /\ given = FALSE /\ stationData = <<>> /\ context = None /\ roundsUp = FALSE
  /\ previous = None /\ calls = 0 /\ run = None
  /\ HandlerAtRest
  /\ MapAtRest

ChatNext == setInput \/ handleSend \/ FetchSettles \/ JsonSettles \/ handleSendResumes

\* the call of fetch settles, the body is read, and the continuation of
\* handleSend runs
ChatSpec ==
  /\ ChatInit
  /\ [][ChatNext]_vars
  /\ WF_vars(FetchSettles)
  /\ WF_vars(JsonSettles)
  /\ WF_vars(handleSendResumes)

----------------------------------------------------------------------------
(* What the claims speak of, stated without the model's rational numbers *)

\* a call has returned
Called == calls >= 1

\* a call on a non-empty array has returned
Analyzed == IF calls >= 1 THEN ~NoData(given, run.entry) ELSE FALSE

\* n * (v - mean) for the population values
Dev(values, v) == Len(values) * v - Sum(values)

\* n^2 * (sum of squared deviations from the mean) = n^3 * population variance
SqDevSum(values) == Sum([i \in 1..Len(values) |-> Dev(values, values[i]) * Dev(values, values[i])])

\* the population of one pollutant: its size, its sum and SqDevSum
Population(values) == [n |-> Len(values), sum |-> Sum(values), sq |-> SqDevSum(values)]

\* the populations of the two pollutants in the array the latest call was given
Populations ==
  [a |-> Population(PolA(run.entry)), b |-> Population(PolB(run.entry))]

PopulationOf(pops, pollutant) == IF pollutant = "Pollution A" THEN pops.a ELSE pops.b

\* n * Dev^2 for the value v in the population pop
ScaledSqDev(pop, v) == pop.n * (pop.n * v - pop.sum) * (pop.n * v - pop.sum)

\* |v - mean| / population stdDev > num / den: with z^2 = n * Dev^2 / SqDevSum
PopZAbove(pop, v, num, den) ==
  IF pop.sq > 0 THEN den * den * ScaledSqDev(pop, v) > num * num * pop.sq ELSE FALSE

\* |v - mean| / population stdDev = num / den
PopZEquals(pop, v, num, den) ==
  IF pop.sq > 0 THEN den * den * ScaledSqDev(pop, v) = num * num * pop.sq ELSE FALSE

\* the square of the exact z-score of an emitted anomaly
ExactZSq(pops, entry) ==
  Rat(ScaledSqDev(PopulationOf(pops, entry.pollutant), entry.value),
      PopulationOf(pops, entry.pollutant).sq)

\* how often x occurs in the sequence f
Occurrences(f, x) == Cardinality({i \in 1..Len(f) : f[i] = x})

\* the array with the rows at i and i + 1 exchanged
SwapAdjacent(data, i) ==
  [k \in 1..Len(data) |-> IF k = i THEN data[i + 1] ELSE IF k = i + 1 THEN data[i] ELSE data[k]]

\* what of a station summary the order of the rows may not change
SummaryFacts(summary) ==
  {[id |-> summary[k].id, name |-> summary[k].name, location |-> summary[k].location,
    avgPolA |-> summary[k].avgPolA, avgPolB |-> summary[k].avgPolB,
    riskLevel |-> summary[k].riskLevel] : k \in 1..Len(summary)}

PatternFacts(patterns) ==
  {IF "type" \in DOMAIN patterns[k]
   THEN [type |-> patterns[k].type, station |-> patterns[k].station.id]
   ELSE [center |-> patterns[k].center.id,
         nearby |-> {patterns[k].nearbyStations[j].id :
                       j \in 1..Len(patterns[k].nearbyStations)}]
     : k \in 1..Len(patterns)}

\* two contexts agree in everything the order of the rows may not change
SameAnalysis(c1, c2) ==
  /\ SummaryFacts(c1.stationSummary) = SummaryFacts(c2.stationSummary)
  /\ \A e \in Range(c1.advancedAnalytics.anomalies) \cup Range(c2.advancedAnalytics.anomalies) :
        Occurrences(c1.advancedAnalytics.anomalies, e)
          = Occurrences(c2.advancedAnalytics.anomalies, e)
  /\ c1.advancedAnalytics.trends = c2.advancedAnalytics.trends
  /\ PatternFacts(c1.advancedAnalytics.geographicPatterns)
       = PatternFacts(c2.advancedAnalytics.geographicPatterns)
  /\ c1.advancedAnalytics.riskAssessment = c2.advancedAnalytics.riskAssessment
  /\ c1.advancedAnalytics.predictions = c2.advancedAnalytics.predictions

----------------------------------------------------------------------------
(* Claims *)

\* C1: calling buildAdvancedDataContext twice in a row on the same array
\* yields identical results in every field.
C1_Idempotent == calls >= 2 => context = previous

\* C2: the analysis never modifies its input: after the call the array holds
\* the same rows in the same order as before the call.
C2_InputUnmodified == Called => stationData = run.entry

\* C3: the order of the rows is irrelevant: exchanging two neighbouring rows
\* of the input (and so any permutation of it) leaves the station summaries
\* per id, the retained anomalies, the trends, the set of geographic
\* patterns, the risk assessment and the predictions the same.
C3_OrderIrrelevant ==
  (calls = 1 /\ Analyzed) =>
    \A i \in 1..(Len(run.entry) - 1) :
       IF run.entry[i] = run.entry[i + 1] THEN TRUE
       ELSE SameAnalysis(context, FullContext(SwapAdjacent(run.entry, i)))


\* C4: when the array is empty or absent, the returned structure is the zeroed
\* one (totalStations = 0, totalRecords = 0, all statistics 0, stationSummary,
\* anomalies, trends and geographicPatterns empty) and none of the five
\* analyzers is invoked.
C4_EmptyInputZeroed ==
  (Called /\ NoData(given, run.entry)) =>
    /\ context.totalStations = 0
    /\ context.totalRecords = 0
    /\ \A pol \in {context.pollutionStats.polA, context.pollutionStats.polB} :
          pol.avg.n = 0 /\ pol.max = 0 /\ pol.min = 0 /\ pol.high_count = 0
    /\ context.stationSummary = <<>>
    /\ context.advancedAnalytics.anomalies = <<>>
    /\ context.advancedAnalytics.trends = <<>>
    /\ context.advancedAnalytics.geographicPatterns = <<>>
    /\ run.invoked = {}

\* a call on an empty array has returned, and so has, in another behaviour,
\* a call on a body without the array
C4_Witness == Called /\ given /\ run.entry = <<>> /\ context.totalRecords = 0

\* the rows of the latest call's array that carry the station id
RowsOf(stationId) == SelectSeq(run.entry, LAMBDA r : r.station_id = stationId)

\* n times the larger of the two averages of the station's rows
LargerSum(stationId) ==
  LET a == Sum(PolA(RowsOf(stationId)))
      b == Sum(PolB(RowsOf(stationId)))
  IN  IF a > b THEN a ELSE b

\* C5: every station summary of a non-empty array has riskLevel 'high' iff the
\* larger of the station's two averages (over all rows with that id) is above
\* 7, 'medium' iff it is above 3 and at most 7, and 'low' otherwise; exactly 7
\* is 'medium' and exactly 3 is 'low'.
C5_RiskLevelThresholds ==
  Analyzed =>
    /\ {context.stationSummary[k].id : k \in 1..Len(context.stationSummary)}
         = {run.entry[i].station_id : i \in 1..Len(run.entry)}
    /\ \A k \in 1..Len(context.stationSummary) :
         LET s == context.stationSummary[k]
             n == Len(RowsOf(s.id))
             m == LargerSum(s.id)
         IN  /\ (s.riskLevel = "high")   <=> (m > 7 * n)
             /\ (s.riskLevel = "medium") <=> (m > 3 * n /\ m <= 7 * n)
             /\ (s.riskLevel = "low")    <=> (m <= 3 * n)

\* a station whose larger average is exactly 7 was rated medium, next to one
\* whose larger average is exactly 3 and was rated low
C5_Witness ==
  /\ Analyzed
  /\ \E k \in 1..Len(context.stationSummary) :
       /\ LargerSum(context.stationSummary[k].id) = 7 * Len(RowsOf(context.stationSummary[k].id))
       /\ context.stationSummary[k].riskLevel = "medium"
  /\ \E k \in 1..Len(context.stationSummary) :
       /\ LargerSum(context.stationSummary[k].id) = 3 * Len(RowsOf(context.stationSummary[k].id))
       /\ context.stationSummary[k].riskLevel = "low"


\* the (reading, pollutant) pairs of the latest call's array in the order of
\* the rows, pollutant A before pollutant B
Pairs ==
  [k \in 1..(2 * Len(run.entry)) |->
     LET r == run.entry[(k + 1) \div 2]
     IN  [stationId |-> r.station_id,
          date      |-> r.sample_dt \div 24,
          pollutant |-> IF k % 2 = 1 THEN "Pollution A" ELSE "Pollution B",
          value     |-> IF k % 2 = 1 THEN r.pol_a ELSE r.pol_b]]

\* what identifies the pair of a pushed anomaly
PairOf(entry) ==
  [stationId |-> entry.stationId, date |-> entry.date,
   pollutant |-> entry.pollutant, value |-> entry.value]

RetainedFromPushed ==
  /\ Len(context.advancedAnalytics.anomalies) <= 10
  /\ Len(context.advancedAnalytics.anomalies) <= Len(run.pushed)
  /\ Len(run.pushed) <= 10 =>
       Len(context.advancedAnalytics.anomalies) = Len(run.pushed)
  /\ \A e \in Range(context.advancedAnalytics.anomalies) :
       Occurrences(context.advancedAnalytics.anomalies, e) <= Occurrences(run.pushed, e)

\* the pushed entries of which fewer were returned than pushed
Dropped ==
  {e \in Range(run.pushed) :
     Occurrences(context.advancedAnalytics.anomalies, e) < Occurrences(run.pushed, e)}

\* C8: the returned anomaly list has at most 10 entries, is ordered by
\* non-increasing z-score, and no dropped flagged pair has a z-score strictly
\* greater than that of a retained one.
C8_TopTenByZScore ==
  Analyzed =>
    \A pops \in {Populations} : \A kept \in {context.advancedAnalytics.anomalies} :
       /\ RetainedFromPushed
       /\ \A k \in 1..(Len(kept) - 1) :
             ~RLess(ExactZSq(pops, kept[k]), ExactZSq(pops, kept[k + 1]))
       /\ \A d \in Dropped : \A e \in Range(kept) :
             ~RLess(ExactZSq(pops, e), ExactZSq(pops, d))

\* What the sort on the zScore texts does give: the returned list has at most
\* 10 entries, is ordered by non-increasing zScore as stored, i.e. rounded to
\* two decimals, and no dropped entry has a stored zScore greater than that of
\* a retained one.
TopTenByStoredZScore ==
  Analyzed =>
    \A kept \in {context.advancedAnalytics.anomalies} :
       /\ RetainedFromPushed
       /\ \A k \in 1..(Len(kept) - 1) : kept[k].zScore.units >= kept[k + 1].zScore.units
       /\ \A d \in Dropped : \A e \in Range(kept) : e.zScore.units >= d.zScore.units

\* C9: a standard deviation of 0 is guarded in detectAnomalies: no division by
\* zero is performed and no NaN or Infinity z-score is computed.
C9_ZeroStdDevGuarded ==
  Analyzed =>
    \A i \in 1..Len(run.zScores) :
       run.zScores[i].a.kind = "finite" /\ run.zScores[i].b.kind = "finite"

\* the distinct day buckets of the latest call's array
DayBuckets == {run.entry[i].sample_dt \div 24 : i \in 1..Len(run.entry)}

\* C10: analyzeTrends returns an empty trend list whenever the rows fall into
\* fewer than 3 distinct day buckets (in particular for exactly 2), without
\* evaluating a slope, and it evaluates both slopes whenever there are 3 or
\* more buckets.
C10_ThreeBucketsRequired ==
  Analyzed =>
    /\ Cardinality(DayBuckets) < 3 =>
         context.advancedAnalytics.trends = <<>> /\ run.slopes = <<>>
    /\ Cardinality(DayBuckets) >= 3 => Len(run.slopes) = 2

\* the rows of some day average more than 0.01 above or below those of
\* another day
DaysDiffer ==
  \E i, j \in 1..Len(run.entry) :
     /\ run.entry[i].sample_dt \div 24 # run.entry[j].sample_dt \div 24
     /\ run.entry[i].pol_a > run.entry[j].pol_a

\* a call on rows of exactly 2 day buckets with different readings returned
\* no trend
C10_Witness ==
  /\ Analyzed
  /\ Cardinality(DayBuckets) = 2
  /\ DaysDiffer
  /\ context.advancedAnalytics.trends = <<>>


\* the k-th day bucket in chronological order
DayInOrder(k) == CHOOSE d \in DayBuckets : Cardinality({e \in DayBuckets : e < d}) = k - 1

\* the mean of one pollutant over the rows of a day
DayMean(day, pollutant) ==
  LET rows == SelectSeq(run.entry, LAMBDA r : r.sample_dt \div 24 = day)
  IN  Rat(Sum(IF pollutant = "Pollution A" THEN PolA(rows) ELSE PolB(rows)), Len(rows))

\* The least-squares slope of the daily means of a pollutant against the
\* position of the day, in the centred form
\*   sum (x - mean x) * y / sum (x - mean x)^2,  x - mean x = (2 k - (n - 1)) / 2.
CentredSlope(pollutant) ==
  LET n   == Cardinality(DayBuckets)
      num == RSum([k \in 1..n |->
                     RMul(FromInt(2 * (k - 1) - (n - 1)), DayMean(DayInOrder(k), pollutant))])
      den == Sum([k \in 1..n |-> (2 * (k - 1) - (n - 1)) * (2 * (k - 1) - (n - 1))])
  IN  RDiv(RMul(FromInt(2), num), FromInt(den))

\* the trend records of a pollutant in the latest result
TrendsOf(pollutant) ==
  SelectSeq(context.advancedAnalytics.trends, LAMBDA t : t.pollutant = pollutant)

Within50(st, other) == Abs(st.location.lat - other.location.lat) <= 44

Within25(st, other) == Abs(st.location.lat - other.location.lat) <= 22

\* the positions of the high-risk stations in the latest station summary
HighRisk ==
  {k \in 1..Len(context.stationSummary) : context.stationSummary[k].riskLevel = "high"}

\* the hotspot entries and the isolated-risk entries of the latest result
Hotspots ==
  SelectSeq(context.advancedAnalytics.geographicPatterns, LAMBDA p : "center" \in DOMAIN p)

IsolatedRisks ==
  SelectSeq(context.advancedAnalytics.geographicPatterns, LAMBDA p : "station" \in DOMAIN p)

\* the other high-risk stations less than 50 km from the k-th station
NearHigh(k) ==
  {j \in HighRisk \ {k} : Within50(context.stationSummary[k], context.stationSummary[j])}

\* C12: for every high-risk station with at least one other high-risk station
\* less than 50 km away exactly one hotspot is emitted with that station as
\* center, and its nearbyStations are exactly the other high-risk stations
\* within 50 km (never the center, never a station that is not high-risk);
\* nothing is deduplicated: two mutually near stations yield two hotspots.
C12_HotspotPerCenter ==
  Analyzed =>
    /\ \A k \in HighRisk :
         \A mine \in {SelectSeq(Hotspots, LAMBDA h : h.center = context.stationSummary[k])} :
            /\ Len(mine) = IF NearHigh(k) = {} THEN 0 ELSE 1
            /\ Len(mine) = 1 =>
                 /\ Range(mine[1].nearbyStations) = {context.stationSummary[j] : j \in NearHigh(k)}
                 /\ Len(mine[1].nearbyStations) = Cardinality(NearHigh(k))
    /\ \A h \in Range(Hotspots) : \E k \in HighRisk : h.center = context.stationSummary[k]

\* two high-risk stations list each other, a high-risk station more than 50 km
\* from both is the center of no hotspot, and a station that is not high-risk
\* lies within 50 km of a center
C12_Witness ==
  /\ Analyzed
  /\ \E h1, h2 \in Range(Hotspots) :
       /\ h1.center # h2.center
       /\ h1.nearbyStations = <<h2.center>>
       /\ h2.nearbyStations = <<h1.center>>
       /\ \E k \in HighRisk : NearHigh(k) = {}
       /\ \E j \in 1..Len(context.stationSummary) :
            /\ j \notin HighRisk
            /\ Within50(h1.center, context.stationSummary[j])

\* the stations of the isolated-risk entries
IsolatedStations == {IsolatedRisks[k].station : k \in 1..Len(IsolatedRisks)}

\* C13: an isolated-risk pattern is emitted for exactly those high-risk
\* stations that have no other station, of any risk level, within 25 km.
C13_IsolatedFromAnyStation ==
  Analyzed =>
    IsolatedStations =
      {context.stationSummary[k] : k \in
         {k \in HighRisk : \A j \in 1..Len(context.stationSummary) :
             j # k => ~Within25(context.stationSummary[k], context.stationSummary[j])}}

\* C13 as the code has it: an isolated-risk pattern is emitted, once, for
\* exactly those high-risk stations that have no other high-risk or
\* medium-risk station within 25 km; low-risk neighbours do not count.
C13_IsolatedFromRiskStations ==
  Analyzed =>
    /\ IsolatedStations =
         {context.stationSummary[k] : k \in
            {k \in HighRisk : \A j \in 1..Len(context.stationSummary) :
                (j # k /\ context.stationSummary[j].riskLevel \in {"high", "medium"})
                   => ~Within25(context.stationSummary[k], context.stationSummary[j])}}
    /\ Len(IsolatedRisks) = Cardinality(IsolatedStations)

\* a high-risk station with a low-risk station within 25 km was emitted as
\* isolated
C13_Witness ==
  /\ Analyzed
  /\ \E k \in HighRisk : \E j \in 1..Len(context.stationSummary) :
       /\ j # k
       /\ context.stationSummary[j].riskLevel = "low"
       /\ Within25(context.stationSummary[k], context.stationSummary[j])
       /\ context.stationSummary[k] \in IsolatedStations


\* the rows of the latest call's array with a pollutant above the level
RowsAbove(level) ==
  {i \in 1..Len(run.entry) : run.entry[i].pol_a > level \/ run.entry[i].pol_b > level}

\* C14: for a non-empty array exceedanceRate is 100 times the number of rows
\* with pol_a > 7 or pol_b > 7 over the number of rows (reported rounded to
\* one decimal), and overallRisk is 'critical' iff the rate is above 30, 'high'
\* iff it is above 15 and at most 30, 'moderate' iff above 5 and at most 15,
\* 'low' iff at most 5; exactly 30, 15 and 5 fall into the lower bracket.
C14_OverallRiskBrackets ==
  Analyzed =>
    \A n \in {Len(run.entry)} : \A c \in {Cardinality(RowsAbove(7))} :
       \A risk \in {context.advancedAnalytics.riskAssessment} :
          /\ risk.exceedanceRate = (2000 * c + n) \div (2 * n)
          /\ (risk.overallRisk = "critical") <=> (100 * c > 30 * n)
          /\ (risk.overallRisk = "high")     <=> (100 * c > 15 * n /\ 100 * c <= 30 * n)
          /\ (risk.overallRisk = "moderate") <=> (100 * c > 5 * n /\ 100 * c <= 15 * n)
          /\ (risk.overallRisk = "low")      <=> (100 * c <= 5 * n)

\* a rate of exactly 30 was rated high (its neighbours of exactly 15 and
\* exactly 5, rated moderate and low, are reached in other behaviours)
C14_Witness ==
  /\ Analyzed
  /\ 100 * Cardinality(RowsAbove(7)) = 30 * Len(run.entry)
  /\ context.advancedAnalytics.riskAssessment.overallRisk = "high"

\* C19: the three riskFactors checks are independent: 'High pollution
\* exceedance rate' is present iff exceedanceRate > 20, 'Multiple high-risk
\* stations' iff more than 3 stations are high-risk, 'Extreme pollution
\* readings detected' iff some row has pol_a > 15 or pol_b > 15; each appears
\* at most once, in that order.
C19_RiskFactorsIndependent ==
  Analyzed =>
    context.advancedAnalytics.riskAssessment.riskFactors
      =    (IF 100 * Cardinality(RowsAbove(7)) > 20 * Len(run.entry)
            THEN <<"High pollution exceedance rate">> ELSE <<>>)
        \o (IF Cardinality(HighRisk) > 3 THEN <<"Multiple high-risk stations">> ELSE <<>>)
        \o (IF RowsAbove(15) # {} THEN <<"Extreme pollution readings detected">> ELSE <<>>)

\* with a rate of exactly 20 the first factor is absent while the second and
\* the third are present
C19_Witness ==
  /\ Analyzed
  /\ 100 * Cardinality(RowsAbove(7)) = 20 * Len(run.entry)
  /\ context.advancedAnalytics.riskAssessment.riskFactors
       = <<"Multiple high-risk stations", "Extreme pollution readings detected">>


\* the predictions object of the latest call
Predictions == context.advancedAnalytics.predictions

\* C15: the forecaster's recent window consists of exactly
\* min(100, floor(0.3 n)) of the n input rows, no row outside the window has
\* a later sample date than a row inside it, and predictions (shortTerm and
\* riskForecast) are produced iff the window holds more than 10 rows;
\* otherwise the predictions object is empty.
C15_RecentWindow ==
  Analyzed =>
    \A n \in {Len(run.entry)} : \A size \in {Len(run.window)} :
       /\ size <= 100 /\ 10 * size <= 3 * n
       /\ (size = 100 \/ 10 * (size + 1) > 3 * n)
       /\ \A x \in Range(run.entry) :
             /\ Occurrences(run.window, x) <= Occurrences(run.entry, x)
             /\ Occurrences(run.window, x) < Occurrences(run.entry, x)
                  => \A k \in 1..size : x.sample_dt <= run.window[k].sample_dt
       /\ Range(run.window) \subseteq Range(run.entry)
       /\ IF size > 10
          THEN DOMAIN Predictions = {"present", "shortTerm", "riskForecast"}
               /\ Predictions.present
          ELSE Predictions = EmptyObject

\* 30% of the rows are more than 100 and the window holds 100 of them, cutting
\* through rows of one date; predictions were produced
C15_Witness ==
  /\ Analyzed
  /\ 3 * Len(run.entry) >= 1010
  /\ Len(run.window) = 100
  /\ \E x \in Range(run.entry) :
        /\ Occurrences(run.window, x) > 0
        /\ Occurrences(run.window, x) < Occurrences(run.entry, x)
  /\ Predictions.present

\* the sum of a pollutant over the rows of f
Total(f, pol) == Sum([i \in 1..Len(f) |-> f[i][pol]])

\* C20: when predictions are produced, each pollutant's short-term trend is
\* 'increasing' iff the mean of the pollutant over the recent window is
\* strictly greater than its average over all rows, and 'decreasing'
\* otherwise, also when the two are equal.
C20_ShortTermTrend ==
  (Analyzed /\ Predictions.present) =>
    \A n \in {Len(run.entry)} : \A size \in {Len(run.window)} :
       \A p \in {<<"pol_a", "pollutionA">>, <<"pol_b", "pollutionB">>} :
          \A trend \in {Predictions.shortTerm[p[2]].trend} :
             /\ trend \in {"increasing", "decreasing"}
             /\ trend = "increasing"
                  <=> Total(run.window, p[1]) * n > Total(run.entry, p[1]) * size

\* the window of pol_a holds both 0 and 2 and its mean equals the average of
\* all rows, 1: the trend is decreasing
C20_Witness ==
  /\ Analyzed /\ Predictions.present
  /\ Total(run.window, "pol_a") * Len(run.entry)
       = Total(run.entry, "pol_a") * Len(run.window)
  /\ \E i, k \in 1..Len(run.window) : run.window[i].pol_a # run.window[k].pol_a
  /\ Predictions.shortTerm.pollutionA.trend = "decreasing"


\* C17: every request receives exactly one response: the 400 error when
\* message is missing, without an analysis or an LLM call; otherwise the LLM
\* result with the computed context or, when anything in the handler throws,
\* the fallback body with mapCommands = [] and data = null; the handler never
\* ends without responding and no exception leaves its catch block.
C17_ExactlyOneResponse ==
  /\ pc # "escaped"
  /\ Len(responses) <= 1
  /\ pc = "done" =>
       /\ Len(responses) = 1
       /\ IF MessageMissing(reqBody)
          THEN responses[1] = BadRequest /\ analyses = 0 /\ llmCalls = 0
          ELSE \/ responses[1].kind = "result" /\ responses[1].data = "context"
               \/ responses[1] = FallbackBody

\* whether the items of stationData are all objects
WellFormed(sd) ==
  \/ sd.kind = Undefined
  \/ sd.kind = "array" /\ \A i \in 1..Len(sd.items) : sd.items[i] # "null"

\* the later copy of the handler answers a body whose stationData is absent
\* or an array of objects exactly once
AnsweredOnceOnWellFormedBody ==
  (build = "part_001" /\ WellFormed(reqBody.stationData)) => C17_ExactlyOneResponse


\* the backend call of the latest message failed
BackendFailed == backend \in {"network error", "not ok", "unparsable", "null"}

\* C16: generateResponse never rejects: when the backend call fails (network
\* error, non-OK status, unparsable body) it resolves to a fallback
\* AIResponse whose mapCommands is empty and whose message is the no-data
\* text when there are no rows and otherwise the text with the record and
\* station counts; no map command is executed for a failed call and fetch is
\* called once.
C16_FallbackNeverRejects ==
  /\ phase \in {"settled", "shown"} => promise.state = "resolved"
  /\ (phase \in {"settled", "shown"} /\ BackendFailed) =>
        /\ promise.mapCommands = <<>>
        /\ promise.message = FallbackText(clientData)
        /\ executed = <<>>
        /\ fetches = 1

\* whatever generateResponse comes to, a failed call executes no command, is
\* not repeated and ends with a fallback text in the chat
FailedCallShowsFallback ==
  BackendFailed =>
     /\ executed = <<>>
     /\ fetches = 1
     /\ phase = "shown" => messages[Len(messages)].content = FallbackText(clientData)

\* the rows of the recent window with a pollutant above 7
WindowAbove7 ==
  {k \in 1..Len(run.window) : run.window[k].pol_a > 7 \/ run.window[k].pol_b > 7}

\* C21: when predictions are produced, exceedanceProbability is 100 times
\* the number of rows of the recent window with pol_a > 7 or pol_b > 7 over
\* the size of the window (reported rounded to one decimal), and
\* riskForecast.riskLevel is 'high' iff that probability is above 40,
\* 'moderate' iff it is above 20 and at most 40, 'low' iff it is at most 20.
C21_RiskForecastBrackets ==
  (Analyzed /\ Predictions.present) =>
    \A size \in {Len(run.window)} : \A c \in {Cardinality(WindowAbove7)} :
       \A forecast \in {Predictions.riskForecast} :
          /\ forecast.exceedanceProbability = (2000 * c + size) \div (2 * size)
          /\ (forecast.riskLevel = "high")     <=> (100 * c > 40 * size)
          /\ (forecast.riskLevel = "moderate") <=> (100 * c > 20 * size /\ 100 * c <= 40 * size)
          /\ (forecast.riskLevel = "low")      <=> (100 * c <= 20 * size)

\* a probability of exactly 40 was rated moderate, while rows above 7 lie
\* outside the window
C21_Witness ==
  /\ Analyzed /\ Predictions.present
  /\ 100 * Cardinality(WindowAbove7) = 40 * Len(run.window)
  /\ Cardinality(RowsAbove(7)) > Cardinality(WindowAbove7)
  /\ Predictions.riskForecast.riskLevel = "moderate"

\* the sum of f[i] ^ 2 over the integers of f
SumOfSquares(f) == Sum([i \in 1..Len(f) |-> f[i] * f[i]])

\* C22: whenever the trend analyzer calls calculateTrendSlope, the points
\* have x = 0..n-1 with n >= 3, so that n * sum(x^2) - (sum x)^2 is strictly
\* positive and no slope is the result of a division by zero.
C22_SlopeDenominatorPositive ==
  Analyzed =>
    /\ Len(run.points) = Len(run.slopes)
    /\ \A c \in 1..Len(run.points) :
          \A n \in {Len(run.points[c])} :
             \A xs \in {[i \in 1..n |-> run.points[c][i].x]} :
                /\ n >= 3
                /\ xs = [i \in 1..n |-> i - 1]
                /\ n * SumOfSquares(xs) - Sum(xs) * Sum(xs) > 0
                /\ run.slopes[c].kind = "finite"

\* both slopes were evaluated over exactly three day buckets
C22_Witness ==
  /\ Analyzed
  /\ Len(run.points) = 2
  /\ Len(run.points[1]) = 3
  /\ run.slopes[1].kind = "finite" /\ run.slopes[2].kind = "finite"
  /\ run.slopes[1].n # 0

\* the population variance of integers: the sum of (n x - S)^2 over n^3
PopulationVariance(values) ==
  Rat(SqDevSum(values), Len(values) * Len(values) * Len(values))

\* the values the variance of a station summary is taken of
StationValues(id) ==
  LET records == SelectSeq(run.entry, LAMBDA r : r.station_id = id)
  IN  PolA(records) \o PolB(records)

\* C23: for every non-empty sequence of numbers calculateVariance returns
\* the population variance mean((x - avg)^2), with divisor n and not n - 1,
\* which is >= 0, and calculateStandardDeviation returns the square root of
\* that same value.
C23_PopulationVariance ==
  Analyzed =>
    /\ \A p \in {"polA", "polB"} :
          \A values \in {IF p = "polA" THEN PolA(run.entry) ELSE PolB(run.entry)} :
             \A stdDev \in {context.pollutionStats[p].stdDev} :
                /\ stdDev.sq = PopulationVariance(values)
                /\ stdDev.sq = calculateVariance(values)
                /\ stdDev.sq.n >= 0 /\ stdDev.sq.d > 0
    /\ \A k \in 1..Len(context.stationSummary) :
          \A values \in {StationValues(context.stationSummary[k].id)} :
             \A variance \in {context.stationSummary[k].variance} :
                /\ variance = PopulationVariance(values)
                /\ calculateStandardDeviation(values).sq = variance
                /\ variance.n >= 0 /\ variance.d > 0

\* two rows of one station with pol_a 7 and 0: the variance of pol_a is 49/4
\* (the sample variance would be 49/2)
C23_Witness ==
  /\ Analyzed
  /\ Len(run.entry) = 2
  /\ context.pollutionStats.polA.stdDev.sq = Rat(49, 4)
  /\ Len(context.stationSummary) = 1
  /\ context.stationSummary[1].variance.n > 0

\* no reading is flagged in a call on 7 or fewer readings (the largest
\* population z-score of n readings is sqrt(n - 1) < 2.5 for n <= 7, far
\* from the bound, so that rounding does not matter)
FlaggingNeedsEightReadings ==
  Analyzed /\ Len(run.entry) <= 7 => run.pushed = <<>>

\* C24: a call on 7 or fewer readings flags no anomaly, and a call on 10 or
\* fewer readings yields no anomaly of severity 'extreme', whatever the
\* pollutant values are
C24_FewReadingsNoAnomaly ==
  Analyzed =>
    /\ Len(run.entry) <= 7 => run.pushed = <<>>
    /\ Len(run.entry) <= 10 =>
         \A k \in 1..Len(run.pushed) : run.pushed[k].severity # "extreme"

\* every reading carries the same value of the pollutant
ConstantA == \A i, j \in 1..Len(run.entry) : run.entry[i].pol_a = run.entry[j].pol_a

ConstantB == \A i, j \in 1..Len(run.entry) : run.entry[i].pol_b = run.entry[j].pol_b

PushedFor(pollutant) ==
  {k \in 1..Len(run.pushed) : run.pushed[k].pollutant = pollutant}

\* C25: a pollutant whose standard deviation over the input is 0 gets no
\* anomaly, and no reading is flagged on a NaN or Infinity z-score
C25_ConstantPollutantNotFlagged ==
  Analyzed =>
    /\ ConstantA => PushedFor("Pollution A") = {}
    /\ ConstantB => PushedFor("Pollution B") = {}
    /\ \A i \in 1..Len(run.entry) :
         /\ run.zScores[i].a.kind # "finite" =>
              \A k \in PushedFor("Pollution A") : run.pushed[k].stationId # run.entry[i].station_id
                                                  \/ run.pushed[k].value # run.entry[i].pol_a
         /\ run.zScores[i].b.kind # "finite" =>
              \A k \in PushedFor("Pollution B") : run.pushed[k].stationId # run.entry[i].station_id
                                                  \/ run.pushed[k].value # run.entry[i].pol_b

\* eight or more readings, pollutant B constant, a reading flagged for A
C25_Witness ==
  /\ Analyzed
  /\ ConstantB
  /\ ~ConstantA
  /\ PushedFor("Pollution A") # {}
  /\ \E i \in 1..Len(run.entry) : run.zScores[i].b.kind = "NaN"

StationIds == {run.entry[i].station_id : i \in 1..Len(run.entry)}

ReadingsOf(id) == {i \in 1..Len(run.entry) : run.entry[i].station_id = id}

SummariesOf(id) ==
  {k \in 1..Len(context.stationSummary) : context.stationSummary[k].id = id}

\* C26: the station summaries partition the readings: one summary per
\* distinct station_id (as many as totalStations), each counting the
\* readings of its station, the counts adding up to totalRecords
C26_SummariesPartitionReadings ==
  Analyzed =>
    /\ Len(context.stationSummary) = context.totalStations
    /\ context.totalStations = Cardinality(StationIds)
    /\ \A k \in 1..Len(context.stationSummary) : context.stationSummary[k].id \in StationIds
    /\ \A id \in StationIds :
         /\ Cardinality(SummariesOf(id)) = 1
         /\ \A k \in SummariesOf(id) :
              context.stationSummary[k].recordCount = Cardinality(ReadingsOf(id))
    /\ Sum([k \in 1..Len(context.stationSummary) |-> context.stationSummary[k].recordCount])
         = context.totalRecords
    /\ context.totalRecords = Len(run.entry)

\* two stations whose readings alternate in the input, several readings each
C26_Witness ==
  /\ Analyzed
  /\ Cardinality(StationIds) >= 2
  /\ \A id \in StationIds : Cardinality(ReadingsOf(id)) >= 2
  /\ \E i, j, k \in 1..Len(run.entry) :
       /\ i < j /\ j < k
       /\ run.entry[i].station_id = run.entry[k].station_id
       /\ run.entry[i].station_id # run.entry[j].station_id

RiskAssessment == context.advancedAnalytics.riskAssessment

HasFactor(text) ==
  \E k \in 1..Len(RiskAssessment.riskFactors) : RiskAssessment.riskFactors[k] = text

\* overallRisk and the exceedance factor agree
RiskMatchesRateFactor ==
  /\ RiskAssessment.overallRisk = "critical" => HasFactor("High pollution exceedance rate")
  /\ RiskAssessment.overallRisk \in {"low", "moderate"} =>
       ~HasFactor("High pollution exceedance rate")

\* C27: overallRisk 'critical' comes with the factor 'High pollution
\* exceedance rate', 'low' and 'moderate' come without it, and the factor
\* 'Extreme pollution readings detected' comes with criticalReadings >= 1 and
\* an exceedanceRate greater than 0 (as stated: the exceedanceRate field)
C27_RiskAssessmentConsistent ==
  Analyzed =>
    /\ RiskMatchesRateFactor
    /\ HasFactor("Extreme pollution readings detected") =>
         /\ RiskAssessment.criticalReadings >= 1
         /\ RiskAssessment.exceedanceRate > 0

\* C27, amended: as above, but it is the exceedance rate itself that is
\* greater than 0; the exceedanceRate field, the rate rounded to one decimal,
\* is greater than 0 only if at least one reading in 2000 exceeds the limit
C27_RiskAssessmentConsistentRounded ==
  Analyzed =>
    /\ RiskMatchesRateFactor
    /\ HasFactor("Extreme pollution readings detected") =>
         /\ RiskAssessment.criticalReadings >= 1
         /\ RowsAbove(7) # {}
         /\ RiskAssessment.exceedanceRate > 0
              <=> 2000 * Cardinality(RowsAbove(7)) >= Len(run.entry)

\* one extreme reading among more than 2000: the factor is present and the
\* field reads 0.0
C27_Witness ==
  /\ Analyzed
  /\ HasFactor("Extreme pollution readings detected")
  /\ RiskAssessment.criticalReadings = 1
  /\ Len(run.entry) > 2000
  /\ RiskAssessment.exceedanceRate = 0

RecognizedTypes ==
  {"focus_station", "highlight_stations", "filter_data", "set_zoom", "apply_time_filter"}

\* what the claim says of one pass: the command and the page before and after
PassAsClaimed(command, before, after) ==
  /\ command.type = "filter_data" =>
       /\ after.focusedStationId = before.focusedStationId
       /\ after.highlightedStationIds = before.highlightedStationIds
       /\ after.filters.polAMin # before.filters.polAMin => command.data.polA_min # <<>>
       /\ after.filters.polBMin # before.filters.polBMin => command.data.polB_min # <<>>
       /\ after.filters.dateFrom # before.filters.dateFrom => command.data.date_from # <<>>
       /\ after.filters.dateTo # before.filters.dateTo => command.data.date_to # <<>>
       /\ after.filters.stationQuery # before.filters.stationQuery =>
            command.data.stationQuery # <<>>
  /\ command.type = "focus_station" =>
       IF command.data.stationId = <<>> THEN after = before
       ELSE command.data.stationId[1] # "" =>
              /\ after.focusedStationId = command.data.stationId[1]
              /\ after.highlightedStationIds = <<command.data.stationId[1]>>
  /\ command.type = "highlight_stations" /\ command.data.stationIds = <<>> => after = before
  /\ command.type \notin RecognizedTypes => after = before

TwoCommandsInOrder ==
  /\ Len(steps) = 2
  /\ steps[1].command.type = "highlight_stations"
  /\ steps[1].after.highlightedStationIds = <<"S2", "S3">>
  /\ steps[2].command.type = "focus_station"
  /\ highlightedStationIds = <<"S1">>

RECURSIVE Concatenation(_, _)
Concatenation(batches, k) ==
  IF k = 0 THEN <<>> ELSE Concatenation(batches, k - 1) \o batches[k]

NonEmptyCalls == {k \in 1..Len(issued) : issued[k] # <<>>}

\* C29: commandHistory is the concatenation of all batches in call order,
\* lastCommand is the last command of the latest non-empty batch (null
\* before any), and every batch, empty or not, was forwarded once to
\* onExecuteCommands, in call order
C29_HistoryOfAllBatches ==
  /\ commandHistory = Concatenation(issued, Len(issued))
  /\ IF NonEmptyCalls = {} THEN lastCommand = None
     ELSE \A k \in NonEmptyCalls :
            (\A j \in NonEmptyCalls : j <= k) => lastCommand = issued[k][Len(issued[k])]
  /\ forwarded = issued

\* a batch of two commands, then an empty batch: lastCommand stays
C29_Witness ==
  /\ Len(issued) = 2
  /\ Len(issued[1]) = 2
  /\ issued[2] = <<>>
  /\ lastCommand = issued[1][2]
  /\ Len(forwarded) = 2

\* commandHistory only grows: every step extends it at its end
HistoryOnlyGrows ==
  [][/\ Len(commandHistory') >= Len(commandHistory)
     /\ SubSeq(commandHistory', 1, Len(commandHistory)) = commandHistory]_vars

UserMessages == SelectSeq(messages, LAMBDA m : m.type = "user")

NonBlankSent == SelectSeq(sent, LAMBDA text : Trim(text) # "")

\* the chat as the protocol has it: the user messages are the non-blank
\* texts sent, in order; after the welcome message user and bot take turns;
\* the indicator is on exactly while a user message is unanswered, and then
\* one call of fetch is unanswered and the text box is disabled; each map
\* command was executed when the user message was the last one shown, and
\* its bot message follows it
ChatProtocol ==
  /\ Len(UserMessages) = Len(NonBlankSent)
  /\ \A k \in 1..Len(UserMessages) : UserMessages[k].content.text = NonBlankSent[k]
  /\ messages[1] = WelcomeMessage
  /\ \A k \in 2..Len(messages) : messages[k].type = (IF k % 2 = 0 THEN "user" ELSE "bot")
  /\ isTyping <=> Len(messages) % 2 = 0
  /\ fetches = Len(UserMessages)
  /\ isTyping => InputDisabled
  /\ isTyping <=> phase \in {"fetching", "parsing", "settled"}
  /\ \A k \in 1..Len(executed) :
       /\ executed[k].shown < Len(messages)
       /\ messages[executed[k].shown].type = "user"
       /\ messages[executed[k].shown + 1].type = "bot"
       /\ messages[executed[k].shown + 1].content = BackendText

====
